---- MODULE Spec2Model ----
(***************************************************************************)
(* Model of the nanocv image-processing core: range algebra, region        *)
(* mapping, the convolution plan builder, the horizontal and vertical      *)
(* filter drivers and the multiply-accumulate operator.                    *)
(*                                                                         *)
(* usize values are integers in 0..Wrap-1, isize values are integers in    *)
(* -Wrap/2..Wrap/2-1; the machine word is scaled down to UsizeBits bits so *)
(* that wrapped values stay inside the model checker's integers.  Integer  *)
(* overflow follows the build: a panic when overflow_checks is set (debug  *)
(* profile), two's complement wrapping otherwise (release profile).        *)
(***************************************************************************)
EXTENDS Integers, Sequences, FiniteSets, TLC

VARIABLES
    overflow_checks,  \* build profile: TRUE = debug (overflow panics)
    pc,               \* "ready" before the call, "done" after it returned or panicked
    input,            \* the input ImgBuf
    output,           \* the output ImgBuf (mutated by the call)
    old_output,       \* the output ImgBuf as it was before the call
    args,             \* arguments of the call
    mapping,          \* ImageMapping computed by the call (NoValue if none)
    plan,             \* Vec<FilterIteration> computed by the call (NoValue if none)
    panic,            \* "none", or the reason the call panicked
    retval            \* value returned by a call that returns one (NoValue if none)

vars == <<overflow_checks, pc, input, output, old_output, args, mapping, plan, panic,
          retval>>

(***************************************************************************)
(* Bounds of the model                                                     *)
(***************************************************************************)
UsizeBits == 5
MaxDim == 2
MaxCoord == 1
MaxKernelLen == 5
MaxLength == 3
MaxShift == 2

Wrap == 2 ^ UsizeBits

NoValue == "none"

\* Marker for the result of an arithmetic operation that panicked
Overflowed == 0 - 1

(***************************************************************************)
(* Machine integers                                                        *)
(***************************************************************************)
Min(a, b) == IF a <= b THEN a ELSE b
Max(a, b) == IF a >= b THEN a ELSE b

\* `v as usize` for an isize v
AsUsize(v) == v % Wrap

\* `u as isize` for a usize u
AsIsize(u) == IF u >= Wrap \div 2 THEN u - Wrap ELSE u

\* a - b on usize
USub(a, b) ==
    IF a = Overflowed \/ b = Overflowed THEN Overflowed
    ELSE IF a >= b THEN a - b
    ELSE IF overflow_checks THEN Overflowed
    ELSE (a - b) % Wrap

\* a + b on usize
UAdd(a, b) ==
    IF a = Overflowed \/ b = Overflowed THEN Overflowed
    ELSE IF a + b < Wrap THEN a + b
    ELSE IF overflow_checks THEN Overflowed
    ELSE (a + b) % Wrap

\* a * b on usize
UMul(a, b) ==
    IF a = Overflowed \/ b = Overflowed THEN Overflowed
    ELSE IF a * b < Wrap THEN a * b
    ELSE IF overflow_checks THEN Overflowed
    ELSE (a * b) % Wrap

IsizeMin == 0 - (Wrap \div 2)

IsizeMax == (Wrap \div 2) - 1

\* Marker for the result of an isize operation that panicked (not an isize)
IOverflowed == Wrap

\* the isize with the two's complement bits of v
IWrap(v) == AsIsize(v % Wrap)

\* the isize of the exact value v, as the build computes it
ICompute(v) ==
    IF v >= IsizeMin /\ v <= IsizeMax THEN v
    ELSE IF overflow_checks THEN IOverflowed
    ELSE IWrap(v)

\* a + b on isize
IAdd(a, b) ==
    IF a = IOverflowed \/ b = IOverflowed THEN IOverflowed ELSE ICompute(a + b)

\* a - b on isize
ISub(a, b) ==
    IF a = IOverflowed \/ b = IOverflowed THEN IOverflowed ELSE ICompute(a - b)

(***************************************************************************)
(* geometry: Vec2d, Range, Range2d                                         *)
(***************************************************************************)
Vec2d_new(x, y) == [x |-> x, y |-> y]

\* Sub for Vec2d<isize>
Vec2d_sub(a, b) == [x |-> ISub(a.x, b.x), y |-> ISub(a.y, b.y)]

Range_new(start, end) == [start |-> start, end |-> end]

\* Range<isize>::length
Range_length(r) == ISub(r.end, r.start)

\* Range<usize>::length
Range_length_usize(r) == USub(r.end, r.start)

\* From<Range<isize>> for Range<usize>
Range_usize_from(r) == Range_new(AsUsize(r.start), AsUsize(r.end))

\* From<Range<usize>> for Range<isize>
Range_isize_from(r) == Range_new(AsIsize(r.start), AsIsize(r.end))

\* the smallest range that holds both, in place of the intersection
Range_intersect_hull(a, b) == Range_new(Min(a.start, b.start), Max(a.end, b.end))

Range_intersect(a, b) == Range_new(Max(a.start, b.start), Min(a.end, b.end))

\* Add<isize> for Range<isize>
Range_add(r, scalar) == Range_new(IAdd(r.start, scalar), IAdd(r.end, scalar))

\* a subtraction that moves the start of the range only
Range_sub_start_only(r, scalar) == Range_new(ISub(r.start, scalar), r.end)

\* Sub<isize> for Range<isize>
Range_sub(r, scalar) == Range_new(ISub(r.start, scalar), ISub(r.end, scalar))

Range2d_new(x, y) == [x |-> x, y |-> y]

Range2d_start(r) == Vec2d_new(r.x.start, r.y.start)

\* Range2d<usize>::width / height
Range2d_width(r) == Range_length_usize(r.x)

Range2d_height(r) == Range_length_usize(r.y)

Range2d_intersect(a, b) ==
    Range2d_new(Range_intersect(a.x, b.x), Range_intersect(a.y, b.y))

Range2d_usize_from(r) == Range2d_new(Range_usize_from(r.x), Range_usize_from(r.y))

Range2d_add(r, v) == Range2d_new(Range_add(r.x, v.x), Range_add(r.y, v.y))

Range2d_sub(r, v) == Range2d_new(Range_sub(r.x, v.x), Range_sub(r.y, v.y))

(***************************************************************************)
(* geometry: ImageMapping                                                  *)
(***************************************************************************)
\* ImageMapping::new with the shift taken the wrong way round
ImageMapping_new_reversed(input_range, output_range, input_size, output_size) ==
    LET shift == Vec2d_sub(Range2d_start(input_range), Range2d_start(output_range))
        src == Range2d_usize_from(
                   Range2d_intersect(Range2d_intersect(input_range, input_size),
                                     Range2d_sub(output_size, shift)))
        dst == Range2d_usize_from(
                   Range2d_intersect(Range2d_intersect(output_range, output_size),
                                     Range2d_add(input_size, shift)))
    IN  [src |-> src, dst |-> dst, shift |-> shift]

ImageMapping_new(input_range, output_range, input_size, output_size) ==
    LET shift == Vec2d_sub(Range2d_start(output_range), Range2d_start(input_range))
        src == Range2d_usize_from(
                   Range2d_intersect(Range2d_intersect(input_range, input_size),
                                     Range2d_sub(output_size, shift)))
        dst == Range2d_usize_from(
                   Range2d_intersect(Range2d_intersect(output_range, output_size),
                                     Range2d_add(input_size, shift)))
    IN  [src |-> src, dst |-> dst, shift |-> shift]

(***************************************************************************)
(* image: ImgBuf                                                           *)
(***************************************************************************)
\* ImgBuf::from_vec: stride equal to the width
ImgBuf_from_vec(size, data) ==
    [size |-> size, stride |-> size.x, pixels |-> data]

\* ImgBuf::new_init: every pixel `init`
ImgBuf_new_init(size, init) ==
    ImgBuf_from_vec(size, [i \in 1..(size.x * size.y) |-> init])

\* ImgBuf::new: every pixel T::default()
ImgBuf_new(size) ==
    ImgBuf_from_vec(size, [i \in 1..(size.x * size.y) |-> 0])

Img_width(img) == img.size.x

Img_height(img) == img.size.y

\* Img::range
Img_range(img) ==
    Range2d_new(Range_new(0, AsIsize(Img_width(img))),
                Range_new(0, AsIsize(Img_height(img))))

\* ImgBuf::line: pixel index range of one image line
ImgBuf_line(img, line) ==
    LET start == UMul(line, img.stride)
    IN  Range_new(start, UAdd(start, img.size.x))

\* `&v[range]` succeeds: both ends computed, start <= end <= len
SliceOk(len, range) ==
    /\ range.start # Overflowed
    /\ range.end # Overflowed
    /\ range.start <= range.end
    /\ range.end <= len

\* Img::line_ref / ImgMut::line_mut succeed on `pixels`
LineOk(img, line) ==
    line # Overflowed /\ SliceOk(Len(img.pixels), ImgBuf_line(img, line))

\* `&v[range]`
Slice(v, range) == SubSeq(v, range.start + 1, range.end)

\* the vector v after the sub-slice starting at `start` was overwritten by `new`
Splice(v, start, new) ==
    [i \in 1..Len(v) |->
        IF i > start /\ i <= start + Len(new) THEN new[i - start] ELSE v[i]]

\* Img::line_ref for a valid line
Img_line_ref(img, line) == Slice(img.pixels, ImgBuf_line(img, line))

(***************************************************************************)
(* filter::convolution: operator                                           *)
(***************************************************************************)
\* convolution_operator that stops one element early
convolution_operator_short(src, dst, kernel) ==
    LET max == Min(Len(src), Len(dst)) - 1
    IN  [index \in 1..Len(dst) |->
            IF index <= max THEN dst[index] + kernel * src[index] ELSE dst[index]]

\* convolution_operator that overwrites dst instead of accumulating into it
convolution_operator_overwrite(src, dst, kernel) ==
    LET max == Min(Len(src), Len(dst))
    IN  [index \in 1..Len(dst) |->
            IF index <= max THEN kernel * src[index] ELSE dst[index]]

\* convolution_operator that leaves the kernel value out
convolution_operator_unscaled(src, dst, kernel) ==
    LET max == Min(Len(src), Len(dst))
    IN  [index \in 1..Len(dst) |->
            IF index <= max THEN dst[index] + src[index] ELSE dst[index]]

\* `&src[0..max]` or `&mut dst[0..max]` panics
convolution_operator_panics(src, dst) ==
    LET max == Min(Len(src), Len(dst))
    IN  \/ ~SliceOk(Len(src), Range_new(0, max))
        \/ ~SliceOk(Len(dst), Range_new(0, max))

\* returns the content of dst after the call
convolution_operator(src, dst, kernel) ==
    LET max == Min(Len(src), Len(dst))
    IN  [index \in 1..Len(dst) |->
            IF index <= max THEN dst[index] + kernel * src[index] ELSE dst[index]]

(***************************************************************************)
(* filter::convolution: plan                                               *)
(***************************************************************************)
\* the destination range one position longer than the source range
iteration_wide_dst(pos, shift, levels, length, src) ==
    LET src_range == Range_new(Max(0, src.start + pos), Min(length, src.end + pos))
    IN  [ src_range     |-> Range_usize_from(src_range),
          dst_range     |-> Range_usize_from(
                                Range_new(src_range.start - pos + shift,
                                          src_range.end - pos + shift + 1)),
          kernel_index  |-> AsUsize(levels - pos),
          outside_start |-> AsUsize(Max(0, -(src.start + pos))),
          outside_end   |-> AsUsize(Max(0, src.end - length + pos)) ]

\* the source range cut to the source interval instead of the raster
iteration_within_src(pos, shift, levels, length, src) ==
    LET src_range == Range_new(Max(src.start, src.start + pos),
                               Min(src.end, src.end + pos))
    IN  [ src_range     |-> Range_usize_from(src_range),
          dst_range     |-> Range_usize_from(
                                Range_new(src_range.start - pos + shift,
                                          src_range.end - pos + shift)),
          kernel_index  |-> AsUsize(levels - pos),
          outside_start |-> AsUsize(Max(0, -(src.start + pos))),
          outside_end   |-> AsUsize(Max(0, src.end - length + pos)) ]

\* no pixel counted outside the raster at its beginning
iteration_no_outside_start(pos, shift, levels, length, src) ==
    LET src_range == Range_new(Max(0, src.start + pos), Min(length, src.end + pos))
    IN  [ src_range     |-> Range_usize_from(src_range),
          dst_range     |-> Range_usize_from(
                                Range_new(src_range.start - pos + shift,
                                          src_range.end - pos + shift)),
          kernel_index  |-> AsUsize(levels - pos),
          outside_start |-> 0,
          outside_end   |-> AsUsize(Max(0, src.end - length + pos)) ]

\* iteration with the kernel applied unflipped
iteration_unflipped(pos, shift, levels, length, src) ==
    LET src_range == Range_new(Max(0, src.start + pos), Min(length, src.end + pos))
    IN  [ src_range     |-> Range_usize_from(src_range),
          dst_range     |-> Range_usize_from(
                                Range_new(src_range.start - pos + shift,
                                          src_range.end - pos + shift)),
          kernel_index  |-> AsUsize(levels + pos),
          outside_start |-> AsUsize(Max(0, -(src.start + pos))),
          outside_end   |-> AsUsize(Max(0, src.end - length + pos)) ]

iteration(pos, shift, levels, length, src) ==
    LET src_range == Range_new(Max(0, src.start + pos), Min(length, src.end + pos))
    IN  [ src_range     |-> Range_usize_from(src_range),
          dst_range     |-> Range_usize_from(
                                Range_new(src_range.start - pos + shift,
                                          src_range.end - pos + shift)),
          kernel_index  |-> AsUsize(levels - pos),
          outside_start |-> AsUsize(Max(0, -(src.start + pos))),
          outside_end   |-> AsUsize(Max(0, src.end - length + pos)) ]

\* [panic, steps]: the returned Vec<FilterIteration>, or the panic of the call
create_filter_plan(length, kernel_size, src, dst) ==
    LET km1 == USub(kernel_size, 1)
        center == AsIsize(km1 \div 2)
        first == -center
        last == AsIsize(kernel_size) - center
        shift == dst.start - src.start
    IN  IF km1 = Overflowed
        THEN [panic |-> "overflow", steps |-> <<>>]
        ELSE [panic |-> "none",
              steps |-> [i \in 1..Max(0, last - first) |->
                            iteration(first + i - 1, shift, center,
                                      AsIsize(length), src)]]

(***************************************************************************)
(* filter::convolution: drivers                                            *)
(*                                                                         *)
(* A driver run is folded over its loops.  The value folded is a record    *)
(* [pixels, panic]: the pixel vector written so far and "none" or the      *)
(* reason of the panic that stopped the run.                               *)
(***************************************************************************)
Running(pixels) == [pixels |-> pixels, panic |-> "none"]

Panicked(pixels, reason) == [pixels |-> pixels, panic |-> reason]

\* operator(&src[src_range], &mut dst[dst_range], value) on two borrowed lines
OperateOnSlices(src, src_range, dst, dst_range, value) ==
    IF ~SliceOk(Len(src), src_range) \/ ~SliceOk(Len(dst), dst_range)
    THEN Panicked(dst, "index out of range")
    ELSE Running(Splice(dst, dst_range.start,
                        convolution_operator(Slice(src, src_range),
                                             Slice(dst, dst_range), value)))

\* horizontal.rs, "Convolution with pixels outside image at the beginning"
RECURSIVE HorizontalOutsideStart(_, _, _, _, _, _)
HorizontalOutsideStart(run, src, value, l, outside, count) ==
    IF run.panic # "none" \/ outside >= count THEN run
    ELSE LET col == UAdd(outside, l)
         IN  HorizontalOutsideStart(
                 OperateOnSlices(src, Range_new(0, 1),
                                 run.pixels, Range_new(col, UAdd(col, 1)), value),
                 src, value, l, outside + 1, count)

\* the loop at the end left out: nothing replicated beyond the last pixel
HorizontalOutsideEnd_skipped(run, src, value, r, input_width, outside, count) == run

\* horizontal.rs, "Convolution with pixels outside image at the end"
RECURSIVE HorizontalOutsideEnd(_, _, _, _, _, _, _)
HorizontalOutsideEnd(run, src, value, r, input_width, outside, count) ==
    IF run.panic # "none" \/ outside >= count THEN run
    ELSE LET col == USub(USub(r, outside), 1)
         IN  HorizontalOutsideEnd(
                 OperateOnSlices(src, Range_new(USub(input_width, 1), input_width),
                                 run.pixels, Range_new(col, UAdd(col, 1)), value),
                 src, value, r, input_width, outside + 1, count)

\* one iteration of `for index in 0..plan.len()` on the borrowed lines src, dst
HorizontalStep(run, src, bound, kernel, map, input_width) ==
    LET l == map.src.x.start
        r == map.src.x.end
        width == Range2d_width(map.src)
    IN  IF run.panic # "none" THEN run
        ELSE IF bound.kernel_index >= Len(kernel)
        THEN Panicked(run.pixels, "index out of range")
        ELSE IF width = Overflowed
        THEN Panicked(run.pixels, "overflow")
        ELSE
        LET value == kernel[bound.kernel_index + 1]
            a == HorizontalOutsideStart(run, src, value, l, 0,
                                        Min(width, bound.outside_start))
            b == IF a.panic # "none" THEN a
                 ELSE OperateOnSlices(src, bound.src_range,
                                      a.pixels, bound.dst_range, value)
        IN  HorizontalOutsideEnd(b, src, value, r, input_width, 0,
                                 Min(width, bound.outside_end))

RECURSIVE HorizontalSteps(_, _, _, _, _, _, _)
HorizontalSteps(run, src, steps, kernel, map, input_width, index) ==
    IF run.panic # "none" \/ index > Len(steps) THEN run
    ELSE HorizontalSteps(
             HorizontalStep(run, src, steps[index], kernel, map, input_width),
             src, steps, kernel, map, input_width, index + 1)

\* `for line in mapping.src.y.to_range()`, run.pixels being the output's pixel vector
RECURSIVE HorizontalLines(_, _, _, _, _, _, _)
HorizontalLines(run, in, out, steps, kernel, map, line) ==
    IF run.panic # "none" \/ line >= map.src.y.end THEN run
    ELSE LET dst_line == AsUsize(AsIsize(line) + map.shift.y)
             dst_at == ImgBuf_line(out, dst_line)
         IN  IF ~LineOk(in, line) \/ ~LineOk(out, dst_line)
             THEN Panicked(run.pixels, "index out of range")
             ELSE
             LET done == HorizontalSteps(Running(Slice(run.pixels, dst_at)),
                                         Img_line_ref(in, line), steps, kernel,
                                         map, Img_width(in), 1)
                 written == Splice(run.pixels, dst_at.start, done.pixels)
             IN  HorizontalLines([pixels |-> written, panic |-> done.panic],
                                 in, out, steps, kernel, map, line + 1)

\* [pixels, panic, mapping, plan] of a call of horizontal_filter_range
horizontal_filter_range(in, out, kernel, input_range, output_range) ==
    LET map == ImageMapping_new(input_range, output_range,
                                Img_range(in), Img_range(out))
        made == create_filter_plan(Img_width(in), Len(kernel),
                                   Range_isize_from(map.src.x),
                                   Range_isize_from(map.dst.x))
        run == IF made.panic # "none" THEN Panicked(out.pixels, made.panic)
               ELSE HorizontalLines(Running(out.pixels), in, out, made.steps,
                                    kernel, map, map.src.y.start)
    IN  [pixels |-> run.pixels, panic |-> run.panic, mapping |-> map,
         plan |-> IF made.panic # "none" THEN NoValue ELSE made.steps]

\* the driver clearing the output before it filters
horizontal_filter_cleared(in, out, kernel) ==
    horizontal_filter_range(in, ImgBuf_new(out.size), kernel,
                            Img_range(in), Img_range(out))

horizontal_filter(in, out, kernel) ==
    horizontal_filter_range(in, out, kernel, Img_range(in), Img_range(out))

\* operator(&input.line_ref(src_line)[columns], &mut output.line_mut(dst_line)[columns], value)
OperateOnLines(run, in, out, src_line, dst_line, columns, value) ==
    IF ~LineOk(in, src_line) \/ ~LineOk(out, dst_line)
    THEN Panicked(run.pixels, "index out of range")
    ELSE LET dst_at == ImgBuf_line(out, dst_line)
             done == OperateOnSlices(Img_line_ref(in, src_line), columns,
                                     Slice(run.pixels, dst_at), columns, value)
         IN  [pixels |-> Splice(run.pixels, dst_at.start, done.pixels),
              panic |-> done.panic]

\* the loop at the beginning left out: nothing replicated before the first line
VerticalOutsideStart_skipped(run, in, out, columns, value, t, extend, count) == run

\* vertical.rs, "Convolution with pixels outside image at the beginning"
RECURSIVE VerticalOutsideStart(_, _, _, _, _, _, _, _)
VerticalOutsideStart(run, in, out, columns, value, t, extend, count) ==
    IF run.panic # "none" \/ extend >= count THEN run
    ELSE VerticalOutsideStart(
             OperateOnLines(run, in, out, 0, UAdd(t, extend), columns, value),
             in, out, columns, value, t, extend + 1, count)

\* vertical.rs, "Convolution with pixels within image"
RECURSIVE VerticalInside(_, _, _, _, _, _, _, _)
VerticalInside(run, in, out, columns, value, bound, offset, count) ==
    IF run.panic # "none" \/ offset >= count THEN run
    ELSE VerticalInside(
             OperateOnLines(run, in, out, UAdd(bound.src_range.start, offset),
                            UAdd(bound.dst_range.start, offset), columns, value),
             in, out, columns, value, bound, offset + 1, count)

\* vertical.rs, "Convolution with pixels outside image at the end"
RECURSIVE VerticalOutsideEnd(_, _, _, _, _, _, _, _)
VerticalOutsideEnd(run, in, out, columns, value, b, extend, count) ==
    IF run.panic # "none" \/ extend >= count THEN run
    ELSE VerticalOutsideEnd(
             OperateOnLines(run, in, out, USub(Img_height(in), 1),
                            USub(USub(b, extend), 1), columns, value),
             in, out, columns, value, b, extend + 1, count)

\* one iteration of `for index in 0..plan.len()`
VerticalStep(run, in, out, bound, kernel, map) ==
    LET columns == map.src.x
        t == map.src.y.start
        b == map.src.y.end
        height == Range2d_height(map.src)
        inside == USub(bound.src_range.end, bound.src_range.start)
    IN  IF run.panic # "none" THEN run
        ELSE IF bound.kernel_index >= Len(kernel)
        THEN Panicked(run.pixels, "index out of range")
        ELSE IF height = Overflowed
        THEN Panicked(run.pixels, "overflow")
        ELSE
        LET value == kernel[bound.kernel_index + 1]
            first == VerticalOutsideStart(run, in, out, columns, value, t, 0,
                                          Min(height, bound.outside_start))
            second == IF first.panic # "none" THEN first
                      ELSE IF inside = Overflowed
                      THEN Panicked(first.pixels, "overflow")
                      ELSE VerticalInside(first, in, out, columns, value, bound,
                                          0, inside)
        IN  VerticalOutsideEnd(second, in, out, columns, value, b, 0,
                               Min(height, bound.outside_end))

RECURSIVE VerticalSteps(_, _, _, _, _, _, _)
VerticalSteps(run, in, out, steps, kernel, map, index) ==
    IF run.panic # "none" \/ index > Len(steps) THEN run
    ELSE VerticalSteps(VerticalStep(run, in, out, steps[index], kernel, map),
                       in, out, steps, kernel, map, index + 1)

OddKernelsOnly == "Only kernels with odd number of elements are supported"

\* vertical_filter_range after its check of the kernel length
VerticalRun(in, out, kernel, input_range, output_range) ==
    LET map == ImageMapping_new(input_range, output_range,
                                Img_range(in), Img_range(out))
        made == create_filter_plan(Img_height(in), Len(kernel),
                                   Range_isize_from(map.src.y),
                                   Range_isize_from(map.dst.y))
        run == IF made.panic # "none" THEN Panicked(out.pixels, made.panic)
               ELSE VerticalSteps(Running(out.pixels), in, out, made.steps,
                                  kernel, map, 1)
    IN  [pixels |-> run.pixels, panic |-> run.panic, mapping |-> map,
         plan |-> IF made.panic # "none" THEN NoValue ELSE made.steps]

\* vertical_filter_range without its check of the kernel length
vertical_filter_range_unchecked(in, out, kernel, input_range, output_range) ==
    VerticalRun(in, out, kernel, input_range, output_range)

\* [pixels, panic, mapping, plan] of a call of vertical_filter_range
vertical_filter_range(in, out, kernel, input_range, output_range) ==
    IF Len(kernel) % 2 = 0
    THEN [pixels |-> out.pixels, panic |-> OddKernelsOnly,
          mapping |-> NoValue, plan |-> NoValue]
    ELSE VerticalRun(in, out, kernel, input_range, output_range)

vertical_filter(in, out, kernel) ==
    vertical_filter_range(in, out, kernel, Img_range(in), Img_range(out))

(***************************************************************************)
(* filter: map                                                             *)
(***************************************************************************)
\* the operator |i, o| i + o of the documentation of map_range
MapOperator(i, o) == i + o

\* `for column in 0..max { dst[column] = operator(src[column], dst[column]) }`
MapColumns(src, dst) ==
    LET max == Min(Len(src), Len(dst))
    IN  [column \in 1..Len(dst) |->
            IF column <= max THEN MapOperator(src[column], dst[column])
            ELSE dst[column]]

\* `for line in 0..mapping.src.height()`
RECURSIVE MapLines(_, _, _, _, _, _)
MapLines(run, in, out, map, line, count) ==
    IF run.panic # "none" \/ line >= count THEN run
    ELSE LET src_line == UAdd(map.src.y.start, line)
             dst_line == UAdd(map.dst.y.start, line)
             dst_at == ImgBuf_line(out, dst_line)
         IN  IF ~LineOk(in, src_line)
                \/ ~SliceOk(Img_width(in), map.src.x)
                \/ ~LineOk(out, dst_line)
                \/ ~SliceOk(Img_width(out), map.dst.x)
             THEN Panicked(run.pixels, "index out of range")
             ELSE
             LET src == Slice(Img_line_ref(in, src_line), map.src.x)
                 dst == Slice(Slice(run.pixels, dst_at), map.dst.x)
                 written == Splice(run.pixels, dst_at.start + map.dst.x.start,
                                   MapColumns(src, dst))
             IN  MapLines(Running(written), in, out, map, line + 1, count)

\* [pixels, panic, mapping] of a call of map_range
map_range(in, out, input_range, output_range) ==
    LET map == ImageMapping_new(input_range, output_range,
                                Img_range(in), Img_range(out))
        height == Range2d_height(map.src)
        run == IF height = Overflowed THEN Panicked(out.pixels, "overflow")
               ELSE MapLines(Running(out.pixels), in, out, map, 0, height)
    IN  [pixels |-> run.pixels, panic |-> run.panic, mapping |-> map,
         plan |-> << >>]

(***************************************************************************)
(* Inputs of the calls                                                     *)
(***************************************************************************)
Dims == 0..MaxDim

\* signed 1D ranges around the images: any offset, any length
Ranges1D == { Range_new(s, s + n) : s \in (-MaxCoord)..MaxCoord, n \in 0..MaxDim }

\* what a call is given along one axis: both image extents and both ranges
AxisCases ==
    [in_dim : Dims, out_dim : Dims, in_range : Ranges1D, out_range : Ranges1D]

\* along this axis the call covers the whole input, at the same place in the output
PlainAxis(c) ==
    /\ c.in_dim >= 1
    /\ c.out_dim >= c.in_dim
    /\ c.in_range = Range_new(0, c.in_dim)
    /\ c.out_range = c.in_range

\* pairs of axis cases: every case on one axis, a plain case on the other
AxisPairs ==
    { p \in AxisCases \X AxisCases : PlainAxis(p[1]) \/ PlainAxis(p[2]) }

\* the image of ImgBuf::from_vec that holds 1, 2, 3, ... line by line
Numbered(size) == ImgBuf_from_vec(size, [i \in 1..(size.x * size.y) |-> i])

(***************************************************************************)
(* Specification SpecMapping: one call of ImageMapping::new                *)
(***************************************************************************)
InitMapping ==
    /\ overflow_checks \in BOOLEAN
    /\ pc = "ready"
    /\ \E p \in AxisPairs :
        /\ input = ImgBuf_new(Vec2d_new(p[1].in_dim, p[2].in_dim))
        /\ output = ImgBuf_new(Vec2d_new(p[1].out_dim, p[2].out_dim))
        /\ args = [input_range  |-> Range2d_new(p[1].in_range, p[2].in_range),
                   output_range |-> Range2d_new(p[1].out_range, p[2].out_range)]
    /\ old_output = output
    /\ mapping = NoValue
    /\ plan = NoValue
    /\ panic = "none"
    /\ retval = NoValue

\* let mapping = ImageMapping::new(input_range, output_range, input.range(), output.range())
MappingNew ==
    /\ pc = "ready"
    /\ pc' = "done"
    /\ mapping' = ImageMapping_new(args.input_range, args.output_range,
                                   Img_range(input), Img_range(output))
    /\ UNCHANGED <<overflow_checks, input, output, old_output, args, plan, panic, retval>>

NextMapping == MappingNew

SpecMapping == InitMapping /\ [][NextMapping]_vars

(***************************************************************************)
(* C1: the mapping returned by ImageMapping::new has src and dst of equal  *)
(* width and equal height, for every input range, output range and image   *)
(* bounds.                                                                 *)
(***************************************************************************)
C1_EqualShape ==
    pc = "done" =>
        /\ Range2d_width(mapping.src) # Overflowed
        /\ Range2d_width(mapping.src) = Range2d_width(mapping.dst)
        /\ Range2d_height(mapping.src) # Overflowed
        /\ Range2d_height(mapping.src) = Range2d_height(mapping.dst)

(***************************************************************************)
(* Specification SpecPlan: one call of create_filter_plan                  *)
(***************************************************************************)
\* source intervals inside a raster of the given length
IntervalsWithin(length) ==
    { r \in { Range_new(s, e) : s \in 0..length, e \in 0..length } :
        r.start <= r.end }

InitPlan ==
    /\ overflow_checks \in BOOLEAN
    /\ pc = "ready"
    /\ \E length \in 0..MaxLength, kernel_size \in 0..MaxKernelLen,
          shift \in 0..MaxCoord :
        \E src \in IntervalsWithin(length) :
            args = [length |-> length, kernel_size |-> kernel_size,
                    src |-> src, dst |-> Range_add(src, shift)]
    /\ input = NoValue
    /\ output = NoValue
    /\ old_output = NoValue
    /\ mapping = NoValue
    /\ plan = NoValue
    /\ panic = "none"
    /\ retval = NoValue

\* let plan = create_filter_plan(length, kernel_size, src, dst)
CreateFilterPlan ==
    /\ pc = "ready"
    /\ pc' = "done"
    /\ LET made == create_filter_plan(args.length, args.kernel_size,
                                      args.src, args.dst)
       IN  /\ panic' = made.panic
           /\ plan' = IF made.panic = "none" THEN made.steps ELSE NoValue
    /\ UNCHANGED <<overflow_checks, input, output, old_output, args, mapping, retval>>

NextPlan == CreateFilterPlan

SpecPlan == InitPlan /\ [][NextPlan]_vars

(***************************************************************************)
(* C10: for an odd kernel length k the plan has exactly k steps, one per   *)
(* tap offset p = -center .. center in increasing order of p, step number  *)
(* i (from 0) being the tap p = i - center with kernel_index = center - p; *)
(* the kernel_index values decrease strictly from k-1 to 0 and are a       *)
(* permutation of 0..k-1.                                                  *)
(***************************************************************************)
C10_PlanShape ==
    (pc = "done" /\ args.kernel_size % 2 = 1) =>
        LET k == args.kernel_size
            center == (k - 1) \div 2
        IN  /\ panic = "none"
            /\ Len(plan) = k
            /\ \A i \in 1..Len(plan) :
                LET p == (i - 1) - center
                IN  /\ plan[i].kernel_index = center - p
                    /\ plan[i].outside_start = Max(0, -(args.src.start + p))
                    /\ plan[i].outside_end = Max(0, args.src.end + p - args.length)
            /\ \A i \in 1..(Len(plan) - 1) :
                /\ plan[i].kernel_index > plan[i + 1].kernel_index
                /\ plan[i].src_range.start <= plan[i + 1].src_range.start
            /\ plan[1].kernel_index = k - 1
            /\ plan[k].kernel_index = 0
            /\ { plan[i].kernel_index : i \in 1..Len(plan) } = 0..(k - 1)

C10_Witness ==
    /\ pc = "done"
    /\ args.kernel_size = 5
    /\ panic = "none"
    /\ Len(plan) = 5
    /\ plan[1].kernel_index = 4

(***************************************************************************)
(* Specification SpecFilter: one whole-image call, horizontal_filter or    *)
(* vertical_filter, on an input and an output image of the same size       *)
(***************************************************************************)
\* kernel [1, 2, .., k]: every tap differs, so a flipped kernel shows
Ramp(k) == [j \in 1..k |-> j]

\* kernel [1, 1, .., 1] (sum filter)
Ones(k) == [j \in 1..k |-> 1]

Kernels == { Ramp(k) : k \in 0..MaxKernelLen } \cup { Ones(k) : k \in 0..MaxKernelLen }

\* initial content of the output image: T::default() or a prefilled value
OutputFills == {0, 7}

InitFilter ==
    /\ overflow_checks \in BOOLEAN
    /\ pc = "ready"
    /\ \E w \in Dims, h \in Dims :
        /\ input = Numbered(Vec2d_new(w, h))
        /\ output \in { ImgBuf_new_init(Vec2d_new(w, h), init) : init \in OutputFills }
    /\ \E kernel \in Kernels : args = [kernel |-> kernel]
    /\ old_output = output
    /\ mapping = NoValue
    /\ plan = NoValue
    /\ panic = "none"
    /\ retval = NoValue

\* the call returned or panicked: what it left behind
Returned(op, result) ==
    /\ pc' = op
    /\ output' = [output EXCEPT !.pixels = result.pixels]
    /\ panic' = result.panic
    /\ mapping' = result.mapping
    /\ plan' = result.plan
    /\ UNCHANGED <<overflow_checks, input, old_output, args, retval>>

\* horizontal_filter(&input, &mut output, &kernel, convolution_operator)
HorizontalFilter ==
    /\ pc = "ready"
    /\ Returned("horizontal_filter", horizontal_filter(input, output, args.kernel))

\* vertical_filter(&input, &mut output, &kernel, convolution_operator)
VerticalFilter ==
    /\ pc = "ready"
    /\ Returned("vertical_filter", vertical_filter(input, output, args.kernel))

NextFilter == HorizontalFilter \/ VerticalFilter

SpecFilter == InitFilter /\ [][NextFilter]_vars

\* pixel (x, y) of an image, coordinates from 0
Pixel(img, x, y) == img.pixels[y * img.stride + x + 1]

Clamp(v, lo, hi) == Max(lo, Min(v, hi))

RECURSIVE Sum(_, _)
Sum(f, n) == IF n = 0 THEN 0 ELSE f[n] + Sum(f, n - 1)

Center(kernel) == (Len(kernel) - 1) \div 2

\* edge-replicated discrete convolution along x at pixel (x, y)
ConvolvedX(img, kernel, x, y) ==
    Sum([j \in 1..Len(kernel) |->
            kernel[j] * Pixel(img, Clamp(x + Center(kernel) - (j - 1), 0,
                                         Img_width(img) - 1), y)],
        Len(kernel))

\* edge-replicated discrete convolution along y at pixel (x, y)
ConvolvedY(img, kernel, x, y) ==
    Sum([j \in 1..Len(kernel) |->
            kernel[j] * Pixel(img, x, Clamp(y + Center(kernel) - (j - 1), 0,
                                            Img_height(img) - 1))],
        Len(kernel))

OddKernel == Len(args.kernel) % 2 = 1

ZeroOutput == old_output = ImgBuf_new(old_output.size)

(***************************************************************************)
(* C3: horizontal filter over the full image, w >= 1, odd kernel with      *)
(* center <= w, zero-initialised output of the same size: every output     *)
(* pixel is sum_j kernel[j] * in[y][clamp(x + c - j, 0, w-1)].             *)
(***************************************************************************)
C3_HorizontalConvolution ==
    ( /\ pc = "horizontal_filter"
      /\ Img_width(input) >= 1
      /\ OddKernel
      /\ Center(args.kernel) <= Img_width(input)
      /\ ZeroOutput ) =>
        /\ panic = "none"
        /\ output.size = old_output.size
        /\ \A x \in 0..(Img_width(input) - 1), y \in 0..(Img_height(input) - 1) :
            Pixel(output, x, y) = ConvolvedX(input, args.kernel, x, y)

C3_Witness ==
    /\ pc = "horizontal_filter"
    /\ input.size = Vec2d_new(2, 2)
    /\ args.kernel = Ramp(5)
    /\ ZeroOutput
    /\ panic = "none"
    /\ Pixel(output, 0, 0) = ConvolvedX(input, args.kernel, 0, 0)
    /\ Pixel(output, 0, 0) # 0

(***************************************************************************)
(* C4: vertical filter over the full image, h >= 1, odd kernel with        *)
(* center <= h, zero-initialised output of the same size: every output     *)
(* pixel is sum_j kernel[j] * in[clamp(y + c - j, 0, h-1)][x].             *)
(***************************************************************************)
C4_VerticalConvolution ==
    ( /\ pc = "vertical_filter"
      /\ Img_height(input) >= 1
      /\ OddKernel
      /\ Center(args.kernel) <= Img_height(input)
      /\ ZeroOutput ) =>
        /\ panic = "none"
        /\ output.size = old_output.size
        /\ \A x \in 0..(Img_width(input) - 1), y \in 0..(Img_height(input) - 1) :
            Pixel(output, x, y) = ConvolvedY(input, args.kernel, x, y)

C4_Witness ==
    /\ pc = "vertical_filter"
    /\ input.size = Vec2d_new(2, 2)
    /\ args.kernel = Ramp(5)
    /\ ZeroOutput
    /\ panic = "none"
    /\ Pixel(output, 0, 0) = ConvolvedY(input, args.kernel, 0, 0)
    /\ Pixel(output, 0, 0) # 0

(***************************************************************************)
(* C5: identity kernel [1] over a raster of any size (0x0, zero width and  *)
(* zero height included) into a zero-initialised output of the same size,  *)
(* horizontal or vertical: no failure, and the output equals the raster.   *)
(***************************************************************************)
C5_IdentityKernel ==
    ( /\ pc \in {"horizontal_filter", "vertical_filter"}
      /\ args.kernel = <<1>>
      /\ ZeroOutput ) =>
        /\ panic = "none"
        /\ output = input

C5_Witness ==
    /\ pc \in {"horizontal_filter", "vertical_filter"}
    /\ args.kernel = <<1>>
    /\ ZeroOutput
    /\ input.size = Vec2d_new(0, 2)
    /\ panic = "none"
    /\ output = input

(***************************************************************************)
(* C8: a horizontal filter call with an even-length kernel fails before    *)
(* any output pixel is mutated: the call fails and the output image is as  *)
(* it was before the call, for any non-empty image.                        *)
(***************************************************************************)
C8_HorizontalRejectsEvenKernel ==
    ( /\ pc = "horizontal_filter"
      /\ ~OddKernel
      /\ Img_width(input) >= 1
      /\ Img_height(input) >= 1 ) =>
        /\ panic # "none"
        /\ output = old_output

(***************************************************************************)
(* C9: vertical_filter_range and vertical_filter with an even-length       *)
(* kernel (the empty kernel included) panic with "Only kernels with odd    *)
(* number of elements are supported", before the mapping or the plan is    *)
(* computed and with the output untouched, for every image.                *)
(***************************************************************************)
C9_VerticalRejectsEvenKernel ==
    (pc = "vertical_filter" /\ ~OddKernel) =>
        /\ panic = OddKernelsOnly
        /\ mapping = NoValue
        /\ plan = NoValue
        /\ output = old_output

C9_Witness ==
    /\ pc = "vertical_filter"
    /\ Len(args.kernel) = 2
    /\ input.size = Vec2d_new(2, 2)
    /\ panic = OddKernelsOnly
    /\ output = old_output

(***************************************************************************)
(* Specification SpecShift: one ranged call with the identity kernel [1],  *)
(* input range = the whole input, output range = the same range shifted,   *)
(* on an input and an output image of any two sizes                        *)
(***************************************************************************)
Shifts == (-MaxShift)..MaxShift

InitShift ==
    /\ overflow_checks \in BOOLEAN
    /\ pc = "ready"
    /\ \E w \in Dims, h \in Dims : input = Numbered(Vec2d_new(w, h))
    /\ \E w \in Dims, h \in Dims :
        output \in { ImgBuf_new_init(Vec2d_new(w, h), init) : init \in OutputFills }
    /\ \E dx \in Shifts, dy \in Shifts :
        args = [kernel       |-> <<1>>,
                input_range  |-> Img_range(input),
                output_range |-> Range2d_add(Img_range(input), Vec2d_new(dx, dy))]
    /\ old_output = output
    /\ mapping = NoValue
    /\ plan = NoValue
    /\ panic = "none"
    /\ retval = NoValue

\* horizontal_filter_range(&input, &mut output, &kernel, input_range, output_range, convolution_operator)
HorizontalFilterRange ==
    /\ pc = "ready"
    /\ Returned("horizontal_filter_range",
                horizontal_filter_range(input, output, args.kernel,
                                        args.input_range, args.output_range))

\* vertical_filter_range(&input, &mut output, &kernel, input_range, output_range, convolution_operator)
VerticalFilterRange ==
    /\ pc = "ready"
    /\ Returned("vertical_filter_range",
                vertical_filter_range(input, output, args.kernel,
                                      args.input_range, args.output_range))

\* map_range(&input, &mut output, input_range, output_range, |i, o| i + o)
MapRange ==
    /\ pc = "ready"
    /\ Returned("map_range",
                map_range(input, output, args.input_range, args.output_range))

NextShift == HorizontalFilterRange \/ VerticalFilterRange \/ MapRange

SpecShift == InitShift /\ [][NextShift]_vars

\* the shift of the output range against the input range
ShiftOf(a) == Vec2d_sub(Range2d_start(a.output_range), Range2d_start(a.input_range))

\* the range and the extent 0..dim have no position in common
AxisDisjoint(range, dim) == Max(range.start, 0) >= Min(range.end, dim)

\* the region has no pixel in common with the image
RegionOutside(region, img) ==
    \/ AxisDisjoint(region.x, Img_width(img))
    \/ AxisDisjoint(region.y, Img_height(img))

\* coordinates of the pixels of an image
Columns(img) == 0..(Img_width(img) - 1)

Lines(img) == 0..(Img_height(img) - 1)

\* the range holds no position
EmptyRange(range) == range.start >= range.end

\* src and dst of the mapping each hold no pixel: no column or no line
EmptyMapping(map) ==
    /\ EmptyRange(map.src.x) \/ EmptyRange(map.src.y)
    /\ EmptyRange(map.dst.x) \/ EmptyRange(map.dst.y)

(***************************************************************************)
(* C2: when the requested regions are fully disjoint from the images (the  *)
(* output region lies entirely outside the output image), the mapping is   *)
(* empty and horizontal_filter_range, vertical_filter_range and map_range  *)
(* complete as a no-op: no failure, output image unchanged.                *)
(***************************************************************************)
C2_DisjointIsNoOp ==
    ( /\ pc \in {"horizontal_filter_range", "vertical_filter_range", "map_range"}
      /\ RegionOutside(args.output_range, output) ) =>
        /\ panic = "none"
        /\ output = old_output
        /\ EmptyMapping(mapping)

(***************************************************************************)
(* C6: horizontal_filter_range with kernel [1], input_range = output_range *)
(* = input.range(), output at least as large as the input: the top-left    *)
(* w x h block of the output is the input, every other output cell keeps   *)
(* its value from before the call.                                         *)
(***************************************************************************)
C6_Case ==
    /\ pc = "horizontal_filter_range"
    /\ args.kernel = <<1>>
    /\ args.input_range = Img_range(input)
    /\ args.output_range = Img_range(input)
    /\ Img_width(output) >= Img_width(input)
    /\ Img_height(output) >= Img_height(input)

C6_IdentityIntoLarger ==
    C6_Case =>
        /\ panic = "none"
        /\ \A x \in Columns(output), y \in Lines(output) :
            Pixel(output, x, y) =
                IF x \in Columns(input) /\ y \in Lines(input)
                THEN Pixel(input, x, y)
                ELSE Pixel(old_output, x, y)

\* C6 as amended: the top-left w x h block of the output is its content from
\* before the call plus the input (the input itself where that content was 0),
\* every other output cell keeps its value from before the call.
C6_IdentityAddsIntoLarger ==
    C6_Case =>
        /\ panic = "none"
        /\ output.size = old_output.size
        /\ \A x \in Columns(output), y \in Lines(output) :
            Pixel(output, x, y) =
                IF x \in Columns(input) /\ y \in Lines(input)
                THEN Pixel(old_output, x, y) + Pixel(input, x, y)
                ELSE Pixel(old_output, x, y)

C6_Witness ==
    /\ C6_Case
    /\ input.size = Vec2d_new(1, 2)
    /\ old_output = ImgBuf_new_init(Vec2d_new(2, 2), 7)
    /\ panic = "none"
    /\ Pixel(output, 0, 1) = 7 + 2
    /\ Pixel(output, 1, 1) = 7

(***************************************************************************)
(* C7: horizontal_filter_range with kernel [1], input_range =              *)
(* input.range(), output_range = input.range() + (dx, dy) still            *)
(* overlapping the output image, zero-initialised output: out[y+dy][x+dx]  *)
(* = in[y][x] for exactly the input pixels whose target lies inside the    *)
(* output, every other output cell keeps its initial value.                *)
(***************************************************************************)
C7_Case ==
    /\ pc = "horizontal_filter_range"
    /\ args.kernel = <<1>>
    /\ args.input_range = Img_range(input)
    /\ args.output_range = Range2d_add(Img_range(input), ShiftOf(args))
    /\ ~RegionOutside(args.output_range, output)
    /\ ZeroOutput

C7_ShiftedIdentity ==
    C7_Case =>
        /\ panic = "none"
        /\ output.size = old_output.size
        /\ \A x \in Columns(output), y \in Lines(output) :
            Pixel(output, x, y) =
                IF /\ (x - ShiftOf(args).x) \in Columns(input)
                   /\ (y - ShiftOf(args).y) \in Lines(input)
                THEN Pixel(input, x - ShiftOf(args).x, y - ShiftOf(args).y)
                ELSE Pixel(old_output, x, y)

C7_Witness ==
    /\ C7_Case
    /\ ShiftOf(args) = Vec2d_new(-1, 1)
    /\ input.size = Vec2d_new(2, 2)
    /\ output.size = Vec2d_new(2, 2)
    /\ panic = "none"
    /\ Pixel(output, 0, 1) = Pixel(input, 1, 0)
    /\ Pixel(output, 1, 1) = 0

(***************************************************************************)
(* Claims about the plan of create_filter_plan (specification SpecPlan)    *)
(***************************************************************************)
\* the tap offset p of step number i (from 1) of a plan for kernel length k
TapOffset(i, k) == (i - 1) - ((k - 1) \div 2)

\* the positions of the source interval shifted by the tap offset p
ShiftedPositions(src, p) == (src.start + p)..(src.end + p - 1)

\* an unsigned range whose start does not exceed its end
WellFormed(range) == range.start <= range.end

(***************************************************************************)
(* C11: edge replication.  For any odd kernel length k, raster length n    *)
(* and source interval within [0, n), every step of the plan has           *)
(* outside_start = the number of positions of [src.start+p, src.end+p)     *)
(* before 0, outside_end = the number of them at or after n, and           *)
(* outside_start + outside_end + length(src_range) = length of src.        *)
(***************************************************************************)
C11_EdgeReplication ==
    (pc = "done" /\ args.kernel_size % 2 = 1) =>
        /\ panic = "none"
        /\ \A i \in 1..Len(plan) :
            LET shifted == ShiftedPositions(args.src, TapOffset(i, args.kernel_size))
            IN  /\ plan[i].outside_start = Cardinality({ q \in shifted : q < 0 })
                /\ plan[i].outside_end =
                       Cardinality({ q \in shifted : q >= args.length })
                /\ WellFormed(plan[i].src_range)
                /\ plan[i].outside_start + plan[i].outside_end
                       + (plan[i].src_range.end - plan[i].src_range.start)
                   = args.src.end - args.src.start

(***************************************************************************)
(* C13: with src and dst of equal length, every step of the plan has       *)
(* dst_range = src_range translated by (shift - p), shift = dst.start -    *)
(* src.start; dst_range has the length of src_range and lies inside the    *)
(* destination interval [dst.start, dst.end).                              *)
(***************************************************************************)
C13_DstRangeTranslated ==
    ( /\ pc = "done"
      /\ args.kernel_size % 2 = 1
      /\ args.dst.end - args.dst.start = args.src.end - args.src.start ) =>
        /\ panic = "none"
        /\ \A i \in 1..Len(plan) :
            LET by == (args.dst.start - args.src.start)
                          - TapOffset(i, args.kernel_size)
            IN  /\ plan[i].dst_range.start = plan[i].src_range.start + by
                /\ plan[i].dst_range.end = plan[i].src_range.end + by
                /\ WellFormed(plan[i].dst_range)
                /\ args.dst.start <= plan[i].dst_range.start
                /\ plan[i].dst_range.end <= args.dst.end

(***************************************************************************)
(* C12: rasters shorter than the kernel are valid.  For a raster length    *)
(* n >= 1 along the filtered axis and any odd kernel length (k > n and     *)
(* (k-1)/2 > n included), the plan over the full interval [0, n) has       *)
(* src_range and dst_range with start <= end <= n in every step, and       *)
(* horizontal_filter / vertical_filter complete without failure.           *)
(***************************************************************************)
\* the length of the input along the axis the call filters
FilteredLength ==
    IF pc = "horizontal_filter" THEN Img_width(input) ELSE Img_height(input)

C12_ShortRasters ==
    ( /\ pc \in {"horizontal_filter", "vertical_filter"}
      /\ OddKernel
      /\ FilteredLength >= 1 ) =>
        /\ panic = "none"
        /\ \A i \in 1..Len(plan) :
            /\ WellFormed(plan[i].src_range)
            /\ plan[i].src_range.end <= FilteredLength
            /\ WellFormed(plan[i].dst_range)
            /\ plan[i].dst_range.end <= FilteredLength

(***************************************************************************)
(* Specification SpecOperator: one call of convolution_operator on two     *)
(* slices of any two lengths.  Pixel values are numbers of a type T whose  *)
(* arithmetic is exact on them.                                            *)
(***************************************************************************)
PixelValues == {1, 2}

KernelValues == {2, 3}

\* the slices of pixel values of a length up to MaxLength
Slices == UNION { [1..n -> PixelValues] : n \in 0..MaxLength }

InitOperator ==
    /\ overflow_checks \in BOOLEAN
    /\ pc = "ready"
    /\ \E src \in Slices, dst \in Slices, kernel \in KernelValues :
        args = [src |-> src, dst |-> dst, kernel |-> kernel]
    /\ input = NoValue
    /\ output = NoValue
    /\ old_output = NoValue
    /\ mapping = NoValue
    /\ plan = NoValue
    /\ panic = "none"
    /\ retval = NoValue

\* convolution_operator(&src, &mut dst, kernel); retval holds both slices after it
ConvolutionOperator ==
    /\ pc = "ready"
    /\ pc' = "convolution_operator"
    /\ IF convolution_operator_panics(args.src, args.dst)
       THEN /\ panic' = "index out of range"
            /\ retval' = [src |-> args.src, dst |-> args.dst]
       ELSE /\ panic' = "none"
            /\ retval' = [src |-> args.src,
                          dst |-> convolution_operator(args.src, args.dst,
                                                       args.kernel)]
    /\ UNCHANGED <<overflow_checks, input, output, old_output, args, mapping, plan>>

NextOperator == ConvolutionOperator

SpecOperator == InitOperator /\ [][NextOperator]_vars

(***************************************************************************)
(* C14: convolution_operator(src, dst, k) sets dst[i] = dst[i] + k*src[i]  *)
(* for every i < min(len(src), len(dst)), leaves dst[i] unchanged for      *)
(* every other i, never modifies src and never fails, whatever the two     *)
(* slice lengths are (empty slices included).                              *)
(***************************************************************************)
C14_MultiplyAccumulate ==
    pc = "convolution_operator" =>
        /\ panic = "none"
        /\ retval.src = args.src
        /\ Len(retval.dst) = Len(args.dst)
        /\ \A i \in 1..Len(args.dst) :
            retval.dst[i] =
                IF i <= Len(args.src)
                THEN args.dst[i] + args.kernel * args.src[i]
                ELSE args.dst[i]

C14_Witness ==
    /\ pc = "convolution_operator"
    /\ args.src = <<1, 2>>
    /\ args.dst = <<2, 1, 2>>
    /\ args.kernel = 3
    /\ panic = "none"
    /\ retval.dst = <<5, 7, 2>>

(***************************************************************************)
(* Specification SpecIntersect: Range::intersect and Range2d::intersect on *)
(* two signed operands a and b; c is a third range to compare with         *)
(***************************************************************************)
Coords == (-MaxCoord)..MaxDim

\* every Range over the coordinates, inverted ones included
AnyRanges == { Range_new(s, e) : s \in Coords, e \in Coords }

WellFormedRanges == { r \in AnyRanges : r.start <= r.end }

\* the operands along one axis
AxisOperands == [a : AnyRanges, b : AnyRanges, c : WellFormedRanges]

PlainOperands ==
    { [a |-> Range_new(0, MaxDim), b |-> Range_new(0, MaxCoord),
       c |-> Range_new(0, MaxCoord)] }

\* every case on one axis, the plain case on the other
OperandPairs ==
    { <<t, q>> : t \in AxisOperands, q \in PlainOperands }
        \cup { <<q, t>> : t \in AxisOperands, q \in PlainOperands }

InitIntersect ==
    /\ overflow_checks \in BOOLEAN
    /\ pc = "ready"
    /\ \E p \in OperandPairs :
        args = [a |-> Range2d_new(p[1].a, p[2].a),
                b |-> Range2d_new(p[1].b, p[2].b),
                c |-> Range2d_new(p[1].c, p[2].c)]
    /\ input = NoValue
    /\ output = NoValue
    /\ old_output = NoValue
    /\ mapping = NoValue
    /\ plan = NoValue
    /\ panic = "none"
    /\ retval = NoValue

\* a.intersect(b), b.intersect(a) and a.intersect(a), on the x ranges (line)
\* and on the 2D ranges (area)
Intersect ==
    /\ pc = "ready"
    /\ pc' = "intersect"
    /\ retval' = [line |-> [ab |-> Range_intersect(args.a.x, args.b.x),
                            ba |-> Range_intersect(args.b.x, args.a.x),
                            aa |-> Range_intersect(args.a.x, args.a.x)],
                  area |-> [ab |-> Range2d_intersect(args.a, args.b),
                            ba |-> Range2d_intersect(args.b, args.a),
                            aa |-> Range2d_intersect(args.a, args.a)]]
    /\ UNCHANGED <<overflow_checks, input, output, old_output, args, mapping, plan,
                   panic>>

NextIntersect == Intersect

SpecIntersect == InitIntersect /\ [][NextIntersect]_vars

\* the range `inner` lies within the range `outer`
Within(inner, outer) == outer.start <= inner.start /\ inner.end <= outer.end

Within2d(inner, outer) == Within(inner.x, outer.x) /\ Within(inner.y, outer.y)

WellFormed2d(r) == WellFormed(r.x) /\ WellFormed(r.y)

\* the range holds at least one position
NonDegenerate(r) == r.start < r.end

NonDegenerate2d(r) == NonDegenerate(r.x) /\ NonDegenerate(r.y)

(***************************************************************************)
(* C15: Range::intersect and Range2d::intersect return                     *)
(* max(a.start, b.start)..min(a.end, b.end) per axis; for well-formed      *)
(* operands the operation is commutative and idempotent, and a             *)
(* non-degenerate result is contained in both operands and contains every  *)
(* range contained in both.                                                *)
(***************************************************************************)
C15_Intersect ==
    pc = "intersect" =>
        LET a == args.a
            b == args.b
            c == args.c
            line == retval.line
            area == retval.area
        IN  /\ line.ab.start = Max(a.x.start, b.x.start)
            /\ line.ab.end = Min(a.x.end, b.x.end)
            /\ area.ab.x = line.ab
            /\ area.ab.y.start = Max(a.y.start, b.y.start)
            /\ area.ab.y.end = Min(a.y.end, b.y.end)
            /\ (WellFormed(a.x) /\ WellFormed(b.x)) =>
                /\ line.ab = line.ba
                /\ line.aa = a.x
                /\ NonDegenerate(line.ab) =>
                    /\ Within(line.ab, a.x)
                    /\ Within(line.ab, b.x)
                    /\ (Within(c.x, a.x) /\ Within(c.x, b.x)) => Within(c.x, line.ab)
            /\ (WellFormed2d(a) /\ WellFormed2d(b)) =>
                /\ area.ab = area.ba
                /\ area.aa = a
                /\ NonDegenerate2d(area.ab) =>
                    /\ Within2d(area.ab, a)
                    /\ Within2d(area.ab, b)
                    /\ (Within2d(c, a) /\ Within2d(c, b)) => Within2d(c, area.ab)

C15_Witness ==
    /\ pc = "intersect"
    /\ args.a = Range2d_new(Range_new(-1, 1), Range_new(0, 2))
    /\ args.b = Range2d_new(Range_new(0, 2), Range_new(0, 1))
    /\ args.c = Range2d_new(Range_new(0, 1), Range_new(0, 1))
    /\ retval.area.ab = Range2d_new(Range_new(0, 1), Range_new(0, 1))
    /\ retval.area.ba = retval.area.ab
    /\ Within2d(args.c, retval.area.ab)

(***************************************************************************)
(* Specification SpecTranslate: a signed range r moved by an offset v and  *)
(* back, with Add and Sub of Range<isize> and Range2d<isize>; coordinates  *)
(* and offsets reach both ends of isize                                    *)
(***************************************************************************)
IsizeEdge ==
    ((-MaxCoord)..MaxCoord) \cup {IsizeMin, IsizeMin + 1, IsizeMax - 1, IsizeMax}

\* a range and an offset along one axis
AxisMoves == [r : { Range_new(s, e) : s \in IsizeEdge, e \in IsizeEdge }, v : IsizeEdge]

PlainMoves == { [r |-> Range_new(0, MaxDim), v |-> MaxCoord] }

\* every case on one axis, the plain case on the other
MovePairs ==
    { <<t, q>> : t \in AxisMoves, q \in PlainMoves }
        \cup { <<q, t>> : t \in AxisMoves, q \in PlainMoves }

InitTranslate ==
    /\ overflow_checks \in BOOLEAN
    /\ pc = "ready"
    /\ \E p \in MovePairs :
        args = [r |-> Range2d_new(p[1].r, p[2].r), v |-> Vec2d_new(p[1].v, p[2].v)]
    /\ input = NoValue
    /\ output = NoValue
    /\ old_output = NoValue
    /\ mapping = NoValue
    /\ plan = NoValue
    /\ panic = "none"
    /\ retval = NoValue

\* an addition or subtraction that produced a bound of the range panicked
RangePanicked(r) == r.start = IOverflowed \/ r.end = IOverflowed

\* the call computed `there` and from it `back`, on the x range (line) and on
\* the 2D range (area), unless one of the operations panicked
Translated(op, there_line, back_line, there_area, back_area) ==
    /\ pc' = op
    /\ IF RangePanicked(back_line) \/ RangePanicked(back_area.x)
          \/ RangePanicked(back_area.y)
       THEN /\ panic' = "overflow"
            /\ retval' = NoValue
       ELSE /\ panic' = "none"
            /\ retval' = [line |-> [there |-> there_line, back |-> back_line],
                          area |-> [there |-> there_area, back |-> back_area]]
    /\ UNCHANGED <<overflow_checks, input, output, old_output, args, mapping, plan>>

\* (r + v) - v
AddThenSub ==
    /\ pc = "ready"
    /\ Translated("add_sub",
                  Range_add(args.r.x, args.v.x),
                  Range_sub(Range_add(args.r.x, args.v.x), args.v.x),
                  Range2d_add(args.r, args.v),
                  Range2d_sub(Range2d_add(args.r, args.v), args.v))

\* (r - v) + v
SubThenAdd ==
    /\ pc = "ready"
    /\ Translated("sub_add",
                  Range_sub(args.r.x, args.v.x),
                  Range_add(Range_sub(args.r.x, args.v.x), args.v.x),
                  Range2d_sub(args.r, args.v),
                  Range2d_add(Range2d_sub(args.r, args.v), args.v))

NextTranslate == AddThenSub \/ SubThenAdd

SpecTranslate == InitTranslate /\ [][NextTranslate]_vars

\* the exact value is an isize
Representable(v) == v >= IsizeMin /\ v <= IsizeMax

\* every bound of r moved by v (by -v for "sub_add") is an isize
MoveRepresentable ==
    LET by == IF pc = "add_sub" THEN args.v ELSE Vec2d_new(-args.v.x, -args.v.y)
    IN  /\ Representable(args.r.x.start + by.x)
        /\ Representable(args.r.x.end + by.x)
        /\ Representable(args.r.y.start + by.y)
        /\ Representable(args.r.y.end + by.y)

\* the range is back where it was, and the moved range has its length
RoundTrip ==
    /\ retval.line.back = args.r.x
    /\ retval.area.back = args.r
    /\ Range_length(retval.line.there) = Range_length(args.r.x)
    /\ Range_length(retval.area.there.x) = Range_length(args.r.x)
    /\ Range_length(retval.area.there.y) = Range_length(args.r.y)

(***************************************************************************)
(* C16: translation round trip.  For every signed range r (Range or        *)
(* Range2d) and every integer offset v, (r + v) - v = r and (r - v) + v =  *)
(* r, and translation preserves length / width / height.                   *)
(***************************************************************************)
C16_RoundTrip ==
    pc \in {"add_sub", "sub_add"} => (panic = "none" /\ RoundTrip)

\* C16 as amended: the round trip and the preserved length hold whenever the
\* call returns; it returns unless a moved bound is not representable in isize
\* and the build checks overflow, in which case it panics with an overflow.
C16_RoundTripUnlessOverflow ==
    pc \in {"add_sub", "sub_add"} =>
        /\ (panic = "none") <=> (MoveRepresentable \/ ~overflow_checks)
        /\ panic # "none" => panic = "overflow"
        /\ panic = "none" => RoundTrip

C16_Witness ==
    /\ pc = "add_sub"
    /\ args.r.x = Range_new(-1, 1)
    /\ args.v.x = 1
    /\ panic = "none"
    /\ retval.area.there.x = Range_new(0, 2)
    /\ retval.area.back = args.r
    /\ Range_length(retval.area.there.x) = 2

(***************************************************************************)
(* Claims about the mapping of a ranged call (specification SpecShift)     *)
(***************************************************************************)
\* both ends of the unsigned range are positions 0..dim of the image axis
AxisWithin(range, dim) == range.start <= dim /\ range.end <= dim

\* the unsigned region lies within the bounds of the image
RegionWithin(region, img) ==
    /\ AxisWithin(region.x, Img_width(img))
    /\ AxisWithin(region.y, Img_height(img))

(***************************************************************************)
(* C17: the mapping returned by ImageMapping::new has shift =               *)
(* output_range.start - input_range.start, dst.start - src.start = shift   *)
(* on both axes, src within the input image bounds and dst within the      *)
(* output image bounds (no unsigned coordinate comes from a negative       *)
(* signed value).                                                          *)
(***************************************************************************)
C17_MappingWithinBounds ==
    pc \in {"horizontal_filter_range", "vertical_filter_range", "map_range"} =>
        /\ mapping.shift = ShiftOf(args)
        /\ mapping.dst.x.start - mapping.src.x.start = mapping.shift.x
        /\ mapping.dst.y.start - mapping.src.y.start = mapping.shift.y
        /\ RegionWithin(mapping.src, input)
        /\ RegionWithin(mapping.dst, output)

(***************************************************************************)
(* Specification SpecImage: an ImgBuf is constructed from a layout and a   *)
(* pixel vector (or a size), then one of its lines is borrowed or its      *)
(* pixel vector is taken back                                              *)
(***************************************************************************)
MaxStride == 3

SizeMismatch == "Vector of length cannot be used as an image, correct length should be"

\* ImgBufLayout::data_length
ImgBufLayout_data_length(dimensions) == UMul(dimensions.size.y, dimensions.stride)

\* ImgBufLayout::assert_data_size_correct: "none" or the reason of its panic
assert_data_size_correct(dimensions, data_size) ==
    LET data_length == ImgBufLayout_data_length(dimensions)
    IN  IF data_length = Overflowed THEN "overflow"
        ELSE IF data_length # data_size THEN SizeMismatch
        ELSE "none"

\* the ImgBuf that ImgBuf::from_vec_stride returns
ImgBuf_from_vec_stride(dimensions, pixels) ==
    [size |-> dimensions.size, stride |-> dimensions.stride, pixels |-> pixels]

\* row strides: small ones, and one whose product with a height overflows
Strides == (0..MaxStride) \cup {Wrap \div 2}

\* the pixel vector 1, 2, .., n
Counted(n) == [i \in 1..n |-> i]

LineIndices == 0..(MaxDim + 1)

Constructors == {"from_vec_stride", "from_vec", "new_init", "new", "new_like"}

InitImage ==
    /\ overflow_checks \in BOOLEAN
    /\ pc = "ready"
    /\ \E x \in Dims, y \in Dims, stride \in Strides,
          n \in 0..(MaxDim * MaxStride), line \in LineIndices :
        args = [dimensions |-> [size |-> Vec2d_new(x, y), stride |-> stride],
                pixels |-> Counted(n),
                line |-> line]
    /\ input = NoValue
    /\ output = NoValue
    /\ old_output = NoValue
    /\ mapping = NoValue
    /\ plan = NoValue
    /\ panic = "none"
    /\ retval = NoValue

\* Self::from_vec_stride(dimensions, pixels) returned the image or panicked
Constructed(op, dimensions, pixels) ==
    /\ pc' = op
    /\ panic' = assert_data_size_correct(dimensions, Len(pixels))
    /\ input' = IF panic' = "none"
                THEN ImgBuf_from_vec_stride(dimensions, pixels)
                ELSE NoValue
    /\ UNCHANGED <<overflow_checks, output, old_output, args, mapping, plan, retval>>

\* ImgBuf::from_vec_stride(dimensions, pixels)
FromVecStride ==
    /\ pc = "ready"
    /\ Constructed("from_vec_stride", args.dimensions, args.pixels)

\* ImgBuf::from_vec(size, data)
FromVec ==
    /\ pc = "ready"
    /\ Constructed("from_vec",
                   [size |-> args.dimensions.size, stride |-> args.dimensions.size.x],
                   args.pixels)

\* ImgBuf::new_init(size, init)
NewInit ==
    /\ pc = "ready"
    /\ \E init \in OutputFills :
        Constructed("new_init",
                    [size |-> args.dimensions.size, stride |-> args.dimensions.size.x],
                    ImgBuf_new_init(args.dimensions.size, init).pixels)

\* ImgBuf::new(size)
New ==
    /\ pc = "ready"
    /\ Constructed("new",
                   [size |-> args.dimensions.size, stride |-> args.dimensions.size.x],
                   ImgBuf_new(args.dimensions.size).pixels)

\* an image has been constructed and is still owned
Owned == pc \in Constructors /\ panic = "none"

\* ImgBuf::new_like(&input)
NewLike ==
    /\ Owned
    /\ pc # "new_like"
    /\ Constructed("new_like",
                   [size |-> input.size, stride |-> input.size.x],
                   ImgBuf_new(input.size).pixels)

\* &pixels[self.line(line)]: the slice, or the panic of the expression
Borrowed(op) ==
    LET range == ImgBuf_line(input, args.line)
    IN  /\ pc' = op
        /\ panic' = IF range.start = Overflowed \/ range.end = Overflowed
                    THEN "overflow"
                    ELSE IF ~SliceOk(Len(input.pixels), range)
                    THEN "index out of range"
                    ELSE "none"
        /\ retval' = [by |-> pc, line |-> args.line,
                      slice |-> IF panic' = "none" THEN Slice(input.pixels, range)
                                ELSE <<>>]
        /\ UNCHANGED <<overflow_checks, input, output, old_output, args, mapping,
                       plan>>

\* input.line_ref(line)
LineRef == Owned /\ Borrowed("line_ref")

\* input.line_mut(line)
LineMut == Owned /\ Borrowed("line_mut")

\* input.into_pixels()
IntoPixels ==
    /\ Owned
    /\ pc' = "into_pixels"
    /\ retval' = [by |-> pc, pixels |-> input.pixels]
    /\ UNCHANGED <<overflow_checks, input, output, old_output, args, mapping, plan,
                   panic>>

NextImage ==
    \/ LineRef
    \/ LineMut
    \/ IntoPixels
    \/ FromVecStride
    \/ FromVec
    \/ NewInit
    \/ New
    \/ NewLike

SpecImage == InitImage /\ [][NextImage]_vars

(***************************************************************************)
(* C18: ImgBuf::from_vec_stride(layout, pixels) succeeds if and only if    *)
(* pixels.len() = layout.stride * layout.size.y and otherwise fails at     *)
(* construction with the size-mismatch panic; on success the pixel vector  *)
(* is stored unchanged, so into_pixels returns exactly the supplied data.  *)
(***************************************************************************)
C18_FromVecStride ==
    /\ pc = "from_vec_stride" =>
        /\ (panic = "none") <=>
               (Len(args.pixels) = args.dimensions.stride * args.dimensions.size.y)
        /\ panic # "none" => panic = SizeMismatch
        /\ panic = "none" => input.pixels = args.pixels
    /\ (pc = "into_pixels" /\ retval.by = "from_vec_stride") =>
        retval.pixels = args.pixels

(***************************************************************************)
(* C19: for every ImgBuf (any width, 0 included, any height, any stride)   *)
(* and every line index >= height, line_ref(index) and line_mut(index)     *)
(* panic instead of returning a slice.                                     *)
(***************************************************************************)
C19_LineOutOfRange ==
    (pc \in {"line_ref", "line_mut"} /\ retval.line >= Img_height(input)) =>
        panic # "none"

(***************************************************************************)
(* C20: every ImgBuf accepted by a constructor has stride >= width, and    *)
(* for every line i < height line_ref(i) succeeds and returns exactly      *)
(* width pixels, pixels[i*stride .. i*stride + width], so that distinct    *)
(* lines never overlap.                                                    *)
(***************************************************************************)
C20_LinesOfAcceptedImage ==
    /\ Owned => input.stride >= Img_width(input)
    /\ (pc = "line_ref" /\ retval.line < Img_height(input)) =>
        /\ panic = "none"
        /\ Len(retval.slice) = Img_width(input)
        /\ retval.slice = SubSeq(input.pixels, retval.line * input.stride + 1,
                                 retval.line * input.stride + Img_width(input))

(***************************************************************************)
(* filter: update                                                          *)
(***************************************************************************)
\* the operator |x| x + 1 of the documentation of update_range
UpdateOperator(x) == x + 1

\* `for col in 0..dst.len() { dst[col] = operator(dst[col]) }`
UpdateColumns(dst) == [col \in 1..Len(dst) |-> UpdateOperator(dst[col])]

\* `for line in range.y.start..range.y.end`, range being the unsigned range
RECURSIVE UpdateLines(_, _, _, _)
UpdateLines(run, img, range, line) ==
    IF run.panic # "none" \/ line >= range.y.end THEN run
    ELSE LET dst_at == ImgBuf_line(img, line)
         IN  IF ~LineOk(img, line) \/ ~SliceOk(Img_width(img), range.x)
             THEN Panicked(run.pixels, "index out of range")
             ELSE
             LET dst == Slice(Slice(run.pixels, dst_at), range.x)
                 written == Splice(run.pixels, dst_at.start + range.x.start,
                                   UpdateColumns(dst))
             IN  UpdateLines(Running(written), img, range, line + 1)

\* [pixels, panic] of a call of update_range
update_range(img, range) ==
    LET within == Range2d_usize_from(Range2d_intersect(range, Img_range(img)))
    IN  UpdateLines(Running(img.pixels), img, within, within.y.start)

(***************************************************************************)
(* Specification SpecUpdate: one call of update_range on an image of any   *)
(* size with a signed range inside, partly outside or outside the image    *)
(***************************************************************************)
InitUpdate ==
    /\ overflow_checks \in BOOLEAN
    /\ pc = "ready"
    /\ \E w \in Dims, h \in Dims : output = Numbered(Vec2d_new(w, h))
    /\ \E xs, xe, ys, ye \in (-MaxShift)..(MaxDim + 1) :
        /\ xs <= xe
        /\ ys <= ye
        /\ args = [range |-> Range2d_new(Range_new(xs, xe), Range_new(ys, ye))]
    /\ old_output = output
    /\ input = NoValue
    /\ mapping = NoValue
    /\ plan = NoValue
    /\ panic = "none"
    /\ retval = NoValue

\* update_range(&mut output, range, |x| x + 1)
UpdateRange ==
    /\ pc = "ready"
    /\ pc' = "update_range"
    /\ LET run == update_range(output, args.range)
       IN  /\ output' = [output EXCEPT !.pixels = run.pixels]
           /\ panic' = run.panic
    /\ UNCHANGED <<overflow_checks, input, old_output, args, mapping, plan, retval>>

NextUpdate == UpdateRange

SpecUpdate == InitUpdate /\ [][NextUpdate]_vars

\* the signed range holds the position
Holds(range, position) == range.start <= position /\ position < range.end

(***************************************************************************)
(* C21: update_range ignores out-of-range pixels.  For every image (0x0    *)
(* included) and every signed range, inside, partly outside or entirely    *)
(* outside the image, the call completes without failure, applies the      *)
(* operator exactly once to each pixel of the range that lies in the       *)
(* image, and leaves every other pixel unchanged.                          *)
(***************************************************************************)
C21_UpdateIgnoresOutside ==
    pc = "update_range" =>
        /\ panic = "none"
        /\ output.size = old_output.size
        /\ \A x \in Columns(output), y \in Lines(output) :
            Pixel(output, x, y) =
                IF Holds(args.range.x, x) /\ Holds(args.range.y, y)
                THEN UpdateOperator(Pixel(old_output, x, y))
                ELSE Pixel(old_output, x, y)

(***************************************************************************)
(* C22: map_range ignores pixels outside the image ranges.  For every      *)
(* input, output, input_range and output_range the call completes, each    *)
(* output pixel at dst.start + (i, j) inside the mapped area becomes       *)
(* operator(input[src.start + (i, j)], previous output pixel), every       *)
(* output pixel outside the mapped destination area is unchanged, and no   *)
(* line or column outside either image is accessed.                        *)
(***************************************************************************)
C22_MapIgnoresOutside ==
    pc = "map_range" =>
        /\ panic = "none"
        /\ output.size = old_output.size
        /\ \A x \in Columns(output), y \in Lines(output) :
            Pixel(output, x, y) =
                IF Holds(mapping.dst.x, x) /\ Holds(mapping.dst.y, y)
                THEN MapOperator(
                        Pixel(input, mapping.src.x.start + (x - mapping.dst.x.start),
                                     mapping.src.y.start + (y - mapping.dst.y.start)),
                        Pixel(old_output, x, y))
                ELSE Pixel(old_output, x, y)

(***************************************************************************)
(* Specification SpecRegion: one call of a range driver with a kernel of   *)
(* one or three taps; the output region is the whole input, or a region of *)
(* the size of the output, moved by a shift in x and y                     *)
(***************************************************************************)
InitRegion ==
    /\ overflow_checks \in BOOLEAN
    /\ pc = "ready"
    /\ \E w \in Dims, h \in Dims : input = Numbered(Vec2d_new(w, h))
    /\ \E w \in Dims, h \in Dims :
        output \in { ImgBuf_new_init(Vec2d_new(w, h), init) : init \in OutputFills }
    /\ \E kernel \in { <<1>>, Ramp(3) }, dx \in Shifts, dy \in Shifts :
         \E region \in { Img_range(input), Img_range(output) } :
            args = [kernel       |-> kernel,
                    input_range  |-> Img_range(input),
                    output_range |-> Range2d_add(region, Vec2d_new(dx, dy))]
    /\ old_output = output
    /\ mapping = NoValue
    /\ plan = NoValue
    /\ panic = "none"
    /\ retval = NoValue

NextRegion == HorizontalFilterRange \/ VerticalFilterRange

SpecRegion == InitRegion /\ [][NextRegion]_vars

(***************************************************************************)
(* C23: horizontal_filter_range with a kernel of length >= 3 and an output *)
(* region shifted horizontally writes the replicated-edge contributions    *)
(* into the leading and trailing positions of the destination interval     *)
(* mapping.dst.x: the result is the edge-replicated convolution of the     *)
(* source region placed at the destination region, and no output pixel     *)
(* outside the mapped destination region is modified.                      *)
(***************************************************************************)
C23_Case ==
    /\ pc = "horizontal_filter_range"
    /\ Len(args.kernel) >= 3
    /\ OddKernel
    /\ args.output_range = Range2d_add(args.input_range, ShiftOf(args))
    /\ ShiftOf(args).x # 0
    /\ ShiftOf(args).y = 0
    /\ ~RegionOutside(args.output_range, output)

C23_EdgesAtDestination ==
    C23_Case =>
        /\ panic = "none"
        /\ output.size = old_output.size
        /\ \A x \in Columns(output), y \in Lines(output) :
            Pixel(output, x, y) =
                IF Holds(mapping.dst.x, x) /\ Holds(mapping.dst.y, y)
                THEN Pixel(old_output, x, y)
                     + ConvolvedX(input, args.kernel, x - ShiftOf(args).x, y)
                ELSE Pixel(old_output, x, y)

\* the image with lines and columns exchanged
Transposed(img) ==
    [ size   |-> Vec2d_new(img.size.y, img.size.x),
      stride |-> img.size.y,
      pixels |-> [i \in 1..(img.size.x * img.size.y) |->
                    Pixel(img, (i - 1) \div img.size.y, (i - 1) % img.size.y)] ]

\* the region with its axes exchanged
TransposedRange(region) == Range2d_new(region.y, region.x)

(***************************************************************************)
(* C24: the vertical driver is the transpose of the horizontal driver: for *)
(* every input, output, odd kernel and pair of ranges, shifts in x and y   *)
(* included, vertical_filter_range gives the transpose of what             *)
(* horizontal_filter_range gives on the transposed images and ranges; in   *)
(* particular, with kernel [1] and an output region shifted by (dx, dy),   *)
(* every input pixel (x, y) lands at (x + dx, y + dy).                     *)
(***************************************************************************)
\* the horizontal driver on the transposed images and regions
C24_Across ==
    horizontal_filter_range(Transposed(input), Transposed(old_output), args.kernel,
                            TransposedRange(args.input_range),
                            TransposedRange(args.output_range))

\* both drivers completed, on regions that meet the output image
C24_Case ==
    /\ pc = "vertical_filter_range"
    /\ OddKernel
    /\ ~RegionOutside(args.output_range, output)
    /\ panic = "none"
    /\ C24_Across.panic = "none"

C24_VerticalIsTransposedHorizontal ==
    C24_Case =>
        /\ Transposed(output).pixels = C24_Across.pixels
        /\ ( /\ args.kernel = <<1>>
             /\ args.output_range = Range2d_add(args.input_range, ShiftOf(args)) ) =>
                \A x \in Columns(input), y \in Lines(input) :
                    ( /\ (x + ShiftOf(args).x) \in Columns(output)
                      /\ (y + ShiftOf(args).y) \in Lines(output) ) =>
                        Pixel(output, x + ShiftOf(args).x, y + ShiftOf(args).y)
                            = Pixel(old_output, x + ShiftOf(args).x,
                                                y + ShiftOf(args).y)
                              + Pixel(input, x, y)

(***************************************************************************)
(* The slices handed to the operator                                       *)
(***************************************************************************)
\* the [src, dst] index ranges of the operator invocations of one step of the
\* horizontal driver on a line: leading edge, in-bounds segment, trailing edge
HorizontalSlices(map, bound, input_width) ==
    LET l == map.src.x.start
        r == map.src.x.end
        width == Range2d_width(map.src)
    IN  IF width = Overflowed THEN {}
        ELSE
        { [src |-> Range_new(0, 1),
           dst |-> Range_new(UAdd(outside, l), UAdd(UAdd(outside, l), 1))] :
             outside \in 0..(Min(width, bound.outside_start) - 1) }
        \cup { [src |-> bound.src_range, dst |-> bound.dst_range] }
        \cup
        { [src |-> Range_new(USub(input_width, 1), input_width),
           dst |-> Range_new(USub(USub(r, outside), 1),
                             UAdd(USub(USub(r, outside), 1), 1))] :
             outside \in 0..(Min(width, bound.outside_end) - 1) }

\* the same for the vertical driver: every invocation slices the input line
\* and the output line with `columns`
VerticalSlices(map, bound) ==
    { [src |-> map.src.x, dst |-> map.src.x] }

\* the invocations of the driver that ran, over all steps of its plan: the
\* pairs whose two slices exist, so that the operator is invoked on them
OperatorInvocations ==
    UNION { { call \in IF pc = "horizontal_filter_range"
                       THEN HorizontalSlices(mapping, plan[index], Img_width(input))
                       ELSE VerticalSlices(mapping, plan[index]) :
                /\ SliceOk(Img_width(input), call.src)
                /\ SliceOk(Img_width(output), call.dst) } :
            index \in 1..Len(plan) }

(***************************************************************************)
(* C25: in every operator invocation made by the horizontal and the        *)
(* vertical driver, for the in-bounds segment and for each replicated-edge *)
(* segment, for every pair of images, pair of regions and odd kernel, the  *)
(* source slice and the destination slice have equal length.               *)
(***************************************************************************)
C25_EqualSliceLengths ==
    pc \in {"horizontal_filter_range", "vertical_filter_range"} =>
        \A call \in OperatorInvocations :
            call.src.end - call.src.start = call.dst.end - call.dst.start

C25_Witness ==
    /\ pc = "horizontal_filter_range"
    /\ args.kernel = Ramp(3)
    /\ input.size = Vec2d_new(2, 2)
    /\ output.size = Vec2d_new(2, 2)
    /\ ShiftOf(args) = Vec2d_new(0, 0)
    /\ panic = "none"
    /\ [src |-> Range_new(0, 1), dst |-> Range_new(0, 1)] \in OperatorInvocations
    /\ [src |-> Range_new(0, 1), dst |-> Range_new(1, 2)] \in OperatorInvocations
    /\ [src |-> Range_new(0, 2), dst |-> Range_new(0, 2)] \in OperatorInvocations
    /\ [src |-> Range_new(1, 2), dst |-> Range_new(1, 2)] \in OperatorInvocations

(***************************************************************************)
(* C26: for a source interval [s, e) in the interior of the raster, with a *)
(* margin of at least center on both sides (s >= center and                *)
(* e + center <= length), every step of the plan has outside_start = 0 and *)
(* outside_end = 0, src_range = [s + p, e + p), and dst_range equal to the *)
(* whole destination interval.                                             *)
(***************************************************************************)
C26_Case ==
    /\ pc = "done"
    /\ args.kernel_size % 2 = 1
    /\ args.src.start >= (args.kernel_size - 1) \div 2
    /\ args.src.end + (args.kernel_size - 1) \div 2 <= args.length

C26_InteriorInterval ==
    C26_Case =>
        /\ panic = "none"
        /\ Len(plan) = args.kernel_size
        /\ \A i \in 1..Len(plan) :
            LET p == (i - 1) - (args.kernel_size - 1) \div 2
            IN  /\ plan[i].outside_start = 0
                /\ plan[i].outside_end = 0
                /\ plan[i].src_range = Range_new(args.src.start + p, args.src.end + p)
                /\ plan[i].dst_range = args.dst

C26_Witness ==
    /\ C26_Case
    /\ args.kernel_size = 3
    /\ args.length = 3
    /\ args.src = Range_new(1, 2)
    /\ args.dst = Range_new(2, 3)
    /\ panic = "none"
    /\ plan[1].src_range = Range_new(0, 1)
    /\ plan[3].src_range = Range_new(2, 3)
    /\ plan[1].dst_range = Range_new(2, 3)

\* the [src, dst] line ranges of the operator invocations of one step of the
\* vertical driver: leading edge lines, in-bounds lines, trailing edge lines
VerticalLines(map, bound, input_height) ==
    LET t == map.src.y.start
        b == map.src.y.end
        height == Range2d_height(map.src)
        inside == USub(bound.src_range.end, bound.src_range.start)
    IN  IF height = Overflowed \/ inside = Overflowed THEN {}
        ELSE
        { [src |-> Range_new(0, 1),
           dst |-> Range_new(UAdd(t, extend), UAdd(UAdd(t, extend), 1))] :
             extend \in 0..(Min(height, bound.outside_start) - 1) }
        \cup { [src |-> Range_new(bound.src_range.start,
                                  UAdd(bound.src_range.start, inside)),
                dst |-> Range_new(bound.dst_range.start,
                                  UAdd(bound.dst_range.start, inside))] }
        \cup
        { [src |-> Range_new(USub(input_height, 1), input_height),
           dst |-> Range_new(USub(USub(b, extend), 1),
                             UAdd(USub(USub(b, extend), 1), 1))] :
             extend \in 0..(Min(height, bound.outside_end) - 1) }

\* the segments one tap of the driver that ran combines, along the filtered axis
Segments(index) ==
    IF pc = "horizontal_filter"
    THEN HorizontalSlices(mapping, plan[index], Img_width(input))
    ELSE VerticalLines(mapping, plan[index], Img_height(input))

\* the destination interval of the filtered axis
DestinationInterval ==
    IF pc = "horizontal_filter" THEN mapping.dst.x ELSE mapping.dst.y

(***************************************************************************)
(* C27: exactly-once coverage.  In horizontal_filter_range and             *)
(* vertical_filter_range over full regions of the same size, with an odd   *)
(* kernel whose center does not exceed the filtered dimension, for each    *)
(* tap the in-bounds dst_range, the leading min(extent, outside_start)     *)
(* positions and the trailing min(extent, outside_end) positions are       *)
(* pairwise disjoint and together equal the destination interval: each     *)
(* destination pixel is combined exactly once per tap, none twice and none *)
(* skipped.                                                                *)
(***************************************************************************)
C27_Case ==
    /\ pc \in {"horizontal_filter", "vertical_filter"}
    /\ OddKernel
    /\ Center(args.kernel) <= FilteredLength

C27_ExactlyOnce ==
    C27_Case =>
        /\ panic = "none"
        /\ Len(plan) = Len(args.kernel)
        /\ DestinationInterval = Range_new(0, FilteredLength)
        /\ \A index \in 1..Len(plan) :
            /\ \A segment \in Segments(index) :
                /\ WellFormed(segment.dst)
                /\ segment.dst.end <= DestinationInterval.end
                /\ segment.src.end - segment.src.start
                       \in {1, segment.dst.end - segment.dst.start}
            /\ \A position \in 0..(FilteredLength - 1) :
                Cardinality({ segment \in Segments(index) :
                                Holds(segment.dst, position) }) = 1

C27_Witness ==
    /\ C27_Case
    /\ pc = "vertical_filter"
    /\ args.kernel = Ramp(5)
    /\ input.size = Vec2d_new(2, 2)
    /\ panic = "none"
    /\ Segments(1) = { [src |-> Range_new(0, 1), dst |-> Range_new(0, 1)],
                       [src |-> Range_new(0, 1), dst |-> Range_new(1, 2)],
                       [src |-> Range_new(0, 0), dst |-> Range_new(2, 2)] }
    /\ Cardinality(Segments(4)) = 2

(***************************************************************************)
(* Specification SpecAccumulate: up to MaxCalls calls of horizontal_filter *)
(* and vertical_filter, with the same input and a kernel chosen per call,  *)
(* on one output with some prior content                                   *)
(***************************************************************************)
MaxCalls == 2

\* horizontal_filter or vertical_filter with convolution_operator
Filtered(op, in, out, kernel) ==
    IF op = "horizontal_filter" THEN horizontal_filter(in, out, kernel)
    ELSE vertical_filter(in, out, kernel)

InitAccumulate ==
    /\ overflow_checks \in BOOLEAN
    /\ pc = "ready"
    /\ \E w \in Dims, h \in Dims :
        /\ input = Numbered(Vec2d_new(w, h))
        /\ output \in { ImgBuf_new_init(Vec2d_new(w, h), 7), Numbered(Vec2d_new(w, h)) }
    /\ old_output = output
    /\ args = NoValue
    /\ mapping = NoValue
    /\ plan = NoValue
    /\ panic = "none"
    /\ retval = << >>

\* one more call on the same output; retval keeps the calls made so far
FilteredAgain(op) ==
    /\ panic = "none"
    /\ Len(retval) < MaxCalls
    /\ \E kernel \in { Ramp(3), <<2, 0, 1>> } :
        LET result == Filtered(op, input, output, kernel)
        IN  /\ pc' = op
            /\ output' = [output EXCEPT !.pixels = result.pixels]
            /\ panic' = result.panic
            /\ mapping' = result.mapping
            /\ plan' = result.plan
            /\ retval' = Append(retval, [op |-> op, kernel |-> kernel])
    /\ UNCHANGED <<overflow_checks, input, old_output, args>>

HorizontalFilterAgain == FilteredAgain("horizontal_filter")

VerticalFilterAgain == FilteredAgain("vertical_filter")

NextAccumulate == HorizontalFilterAgain \/ VerticalFilterAgain

SpecAccumulate == InitAccumulate /\ [][NextAccumulate]_vars

\* the result C of a call on a zero-initialised output
OnZero(call) == Filtered(call.op, input, ImgBuf_new(old_output.size), call.kernel)

\* the pixels of prior plus the results on a zero-initialised output of the calls
RECURSIVE Accumulated(_, _)
Accumulated(prior, calls) ==
    IF calls = << >> THEN prior
    ELSE LET result == OnZero(Head(calls)).pixels
         IN  Accumulated([i \in 1..Len(prior) |-> prior[i] + result[i]],
                         Tail(calls))

\* [pixels, panic] after making the calls in order on an output holding prior
RECURSIVE Replayed(_, _)
Replayed(run, calls) ==
    IF calls = << >> \/ run.panic # "none" THEN run
    ELSE LET result == Filtered(Head(calls).op, input,
                                [old_output EXCEPT !.pixels = run.pixels],
                                Head(calls).kernel)
         IN  Replayed([pixels |-> result.pixels, panic |-> result.panic],
                      Tail(calls))

Reversed(calls) == [i \in 1..Len(calls) |-> calls[Len(calls) + 1 - i]]

(***************************************************************************)
(* C28: the filter drivers accumulate and never reset the output.  For any *)
(* prior output content O, horizontal_filter / vertical_filter with        *)
(* convolution_operator leave output = O + C, C being the result on a      *)
(* zero-initialised output; n calls with the same input and kernel on one  *)
(* output yield O + n*C, and calls with different kernels on the same      *)
(* output commute.                                                         *)
(***************************************************************************)
C28_Case ==
    /\ pc \in {"horizontal_filter", "vertical_filter"}
    /\ panic = "none"

C28_Accumulates ==
    C28_Case =>
        /\ output.size = old_output.size
        /\ output.pixels = Accumulated(old_output.pixels, retval)
        /\ (\A i \in 1..Len(retval) : retval[i] = retval[1]) =>
              LET result == OnZero(retval[1]).pixels
              IN  \A i \in 1..Len(output.pixels) :
                      output.pixels[i] = old_output.pixels[i] + Len(retval) * result[i]
        /\ Replayed(Running(old_output.pixels), Reversed(retval))
               = Running(output.pixels)

C28_Witness ==
    /\ C28_Case
    /\ input.size = Vec2d_new(2, 2)
    /\ old_output = ImgBuf_new_init(Vec2d_new(2, 2), 7)
    /\ retval = << [op |-> "horizontal_filter", kernel |-> Ramp(3)],
                   [op |-> "vertical_filter", kernel |-> <<2, 0, 1>>] >>
    /\ output.pixels # old_output.pixels
    /\ OnZero(retval[1]).pixels # OnZero(retval[2]).pixels

(***************************************************************************)
(* filter::resize: nearest                                                 *)
(***************************************************************************)
\* the table rounding up instead of down
scale_index_table_rounded_up(source_size, target_size) ==
    LET products == [x \in 1..target_size |-> UMul(x - 1, source_size)]
    IN  IF \E x \in 1..target_size : products[x] = Overflowed
        THEN [panic |-> "overflow", table |-> << >>]
        ELSE [panic |-> "none",
              table |-> [x \in 1..target_size |->
                            (products[x] + target_size - 1) \div target_size]]

\* [table, panic] of (0..target_size).map(|x| x*source_size/target_size).collect()
scale_index_table(source_size, target_size) ==
    LET products == [x \in 1..target_size |-> UMul(x - 1, source_size)]
    IN  IF \E x \in 1..target_size : products[x] = Overflowed
        THEN [panic |-> "overflow", table |-> << >>]
        ELSE [panic |-> "none",
              table |-> [x \in 1..target_size |-> products[x] \div target_size]]

\* `for line in 0..size.y`, run.pixels being the pixel vector of result
RECURSIVE ResizeLines(_, _, _, _, _, _)
ResizeLines(run, image, made, x_indices, y_indices, line) ==
    IF run.panic # "none" \/ line >= made.size.y THEN run
    ELSE IF ~LineOk(made, line) \/ ~LineOk(image, y_indices[line + 1])
    THEN Panicked(run.pixels, "index out of range")
    ELSE
    LET src == Img_line_ref(image, y_indices[line + 1])
    IN  IF \E x \in 1..made.size.x : x_indices[x] >= Len(src)
        THEN Panicked(run.pixels, "index out of range")
        ELSE ResizeLines(
                 Running(Splice(run.pixels, ImgBuf_line(made, line).start,
                                [x \in 1..made.size.x |-> src[x_indices[x] + 1]])),
                 image, made, x_indices, y_indices, line + 1)

\* [image, panic] of a call of resize_nearest_new; the default pixel is 0
resize_nearest_new(image, size) ==
    LET x_indices == scale_index_table(Img_width(image), size.x)
        y_indices == scale_index_table(Img_height(image), size.y)
        made == ImgBuf_new_init(size, 0)
    IN  IF x_indices.panic # "none" THEN [image |-> NoValue, panic |-> x_indices.panic]
        ELSE IF y_indices.panic # "none" THEN [image |-> NoValue, panic |-> y_indices.panic]
        ELSE
        LET run == ResizeLines(Running(made.pixels), image, made,
                               x_indices.table, y_indices.table, 0)
        IN  IF run.panic # "none" THEN [image |-> NoValue, panic |-> run.panic]
            ELSE [image |-> [made EXCEPT !.pixels = run.pixels], panic |-> "none"]

(***************************************************************************)
(* Specification SpecResize: one call of scale_index_table on a pair of    *)
(* sizes (those of the unit tests, 6 into 3 and 3 into 6, and a size near  *)
(* the top of usize), or one call of resize_nearest_new on an image and a  *)
(* target size up to the double of an image (2x2 to 4x4 in the unit test)  *)
(***************************************************************************)
InitResize ==
    /\ overflow_checks \in BOOLEAN
    /\ pc = "ready"
    /\ \/ /\ \E w \in Dims, h \in Dims : input = Numbered(Vec2d_new(w, h))
          /\ \E x \in 0..(2 * MaxDim), y \in 0..(2 * MaxDim) :
                args = [call |-> "resize_nearest_new", size |-> Vec2d_new(x, y)]
       \/ /\ input = NoValue
          /\ \E source_size \in 0..(3 * MaxDim) \cup {Wrap \div 2},
                target_size \in 0..(3 * MaxDim) \cup {Wrap \div 2} :
                args = [call |-> "scale_index_table",
                        source_size |-> source_size, target_size |-> target_size]
    /\ output = NoValue
    /\ old_output = NoValue
    /\ mapping = NoValue
    /\ plan = NoValue
    /\ panic = "none"
    /\ retval = NoValue

\* retval = scale_index_table(source_size, target_size)
ScaleIndexTable ==
    /\ pc = "ready"
    /\ args.call = "scale_index_table"
    /\ pc' = "scale_index_table"
    /\ LET made == scale_index_table(args.source_size, args.target_size)
       IN  /\ panic' = made.panic
           /\ retval' = made.table
    /\ UNCHANGED <<overflow_checks, input, output, old_output, args, mapping, plan>>

\* output = resize_nearest_new(&input, size)
ResizeNearestNew ==
    /\ pc = "ready"
    /\ args.call = "resize_nearest_new"
    /\ pc' = "resize_nearest_new"
    /\ LET made == resize_nearest_new(input, args.size)
       IN  /\ panic' = made.panic
           /\ output' = made.image
    /\ UNCHANGED <<overflow_checks, input, old_output, args, mapping, plan, retval>>

NextResize == ScaleIndexTable \/ ResizeNearestNew

SpecResize == InitResize /\ [][NextResize]_vars

\* the table has target_size entries, entry x being floor(x * source_size / target_size)
ExactTable ==
    /\ panic = "none"
    /\ Len(retval) = args.target_size
    /\ \A x \in 0..(args.target_size - 1) :
        /\ retval[x + 1] = (x * args.source_size) \div args.target_size
        /\ args.source_size >= 1 => retval[x + 1] < args.source_size
        /\ x >= 1 => retval[x] <= retval[x + 1]

\* the W x H result holds the nearest pixel of the input at every position
NearestPixels ==
    /\ panic = "none"
    /\ output.size = args.size
    /\ output.stride = args.size.x
    /\ Len(output.pixels) = args.size.x * args.size.y
    /\ \A x \in Columns(output), y \in Lines(output) :
        Pixel(output, x, y) =
            Pixel(input, (x * Img_width(input)) \div args.size.x,
                         (y * Img_height(input)) \div args.size.y)

\* the result is an empty image of the target size
EmptyResult ==
    /\ panic = "none"
    /\ output.size = args.size
    /\ output.pixels = << >>

(***************************************************************************)
(* C29: scale_index_table(s, t) has length t, with entry x equal to        *)
(* floor(x*s/t), non-decreasing, and for s >= 1 every entry < s;           *)
(* resize_nearest_new(image, (W, H)) returns a W x H image with            *)
(* out[y][x] = in[floor(y*h/H)][floor(x*w/W)]; resizing to the image's own *)
(* size returns an equal image; a target size with W = 0 or H = 0          *)
(* completes without a division by zero.                                   *)
(***************************************************************************)
C29_NearestResize ==
    /\ pc = "scale_index_table" => ExactTable
    /\ pc = "resize_nearest_new" =>
        /\ NearestPixels
        /\ args.size = input.size => output = input

\* the same for the inputs the code computes: the products x*s fit in usize
\* or wrap, and the input image holds the pixels the target reads
C29_NearestResizeOfReadable ==
    /\ pc = "scale_index_table" =>
        IF args.target_size = 0
              \/ (args.target_size - 1) * args.source_size < Wrap
        THEN ExactTable
        ELSE IF overflow_checks THEN panic = "overflow"
        ELSE /\ panic = "none"
             /\ Len(retval) = args.target_size
             /\ \A x \in 0..(args.target_size - 1) :
                 retval[x + 1] = ((x * args.source_size) % Wrap) \div args.target_size
    /\ pc = "resize_nearest_new" =>
        LET w == Img_width(input)
            h == Img_height(input)
        IN  /\ (w >= 1 /\ h >= 1) => NearestPixels
            /\ args.size = input.size => (panic = "none" /\ output = input)
            /\ args.size.y = 0 => EmptyResult
            /\ (args.size.x = 0 /\ (h >= 1 \/ w = 0)) => EmptyResult
            /\ (args.size.x = 0 /\ args.size.y >= 1 /\ h = 0 /\ w >= 1) =>
                  panic = "index out of range"
            /\ (args.size.x >= 1 /\ args.size.y >= 1 /\ (w = 0 \/ h = 0)) =>
                  panic = "index out of range"

C29_Witness ==
    /\ pc = "resize_nearest_new"
    /\ input = ImgBuf_from_vec(Vec2d_new(2, 2), <<1, 2, 3, 4>>)
    /\ args.size = Vec2d_new(4, 4)
    /\ panic = "none"
    /\ output = ImgBuf_from_vec(Vec2d_new(4, 4),
                                <<1, 1, 2, 2, 1, 1, 2, 2, 3, 3, 4, 4, 3, 3, 4, 4>>)

(***************************************************************************)
(* filter: mirror                                                          *)
(***************************************************************************)
\* `for line in 0..input.height()` of mirror_horizontal_new
RECURSIVE MirrorHorizontalLines(_, _, _, _)
MirrorHorizontalLines(run, in, made, line) ==
    IF run.panic # "none" \/ line >= Img_height(in) THEN run
    ELSE IF ~LineOk(in, line) \/ ~LineOk(made, line)
    THEN Panicked(run.pixels, "index out of range")
    ELSE
    LET src == Img_line_ref(in, line)
        last == USub(Img_width(in), 1)
    IN  IF last = Overflowed THEN Panicked(run.pixels, "overflow")
        ELSE MirrorHorizontalLines(
                 Running(Splice(run.pixels, ImgBuf_line(made, line).start,
                                [column \in 1..Img_width(in) |->
                                    src[(last - (column - 1)) + 1]])),
                 in, made, line + 1)

\* the image returned as it was given
mirror_horizontal_new_copied(in) == [image |-> in, panic |-> "none"]

\* [image, panic] of a call of mirror_horizontal_new
mirror_horizontal_new(in) ==
    LET made == ImgBuf_new(in.size)
        run == MirrorHorizontalLines(Running(made.pixels), in, made, 0)
    IN  [image |-> [made EXCEPT !.pixels = run.pixels], panic |-> run.panic]

\* `for line in 0..input.height()` of mirror_vertical_new
RECURSIVE MirrorVerticalLines(_, _, _, _)
MirrorVerticalLines(run, in, made, line) ==
    IF run.panic # "none" \/ line >= Img_height(in) THEN run
    ELSE LET dst_line == USub(USub(Img_height(in), 1), line)
         IN  IF ~LineOk(in, line) \/ ~LineOk(made, dst_line)
             THEN Panicked(run.pixels, "index out of range")
             ELSE MirrorVerticalLines(
                      Running(Splice(run.pixels, ImgBuf_line(made, dst_line).start,
                                     Img_line_ref(in, line))),
                      in, made, line + 1)

\* [image, panic] of a call of mirror_vertical_new
mirror_vertical_new(in) ==
    LET made == ImgBuf_new(in.size)
        run == MirrorVerticalLines(Running(made.pixels), in, made, 0)
    IN  [image |-> [made EXCEPT !.pixels = run.pixels], panic |-> run.panic]

\* mirror_horizontal_new or mirror_vertical_new
Mirrored(op, in) ==
    IF op = "mirror_horizontal_new" THEN mirror_horizontal_new(in)
    ELSE mirror_vertical_new(in)

(***************************************************************************)
(* Specification SpecMirror: up to MaxCalls mirrors in a row, each of the  *)
(* image the call before returned; input keeps the first image, old_output *)
(* the image given to the last call, retval the calls made                 *)
(***************************************************************************)
InitMirror ==
    /\ overflow_checks \in BOOLEAN
    /\ pc = "ready"
    /\ \E w \in 0..(MaxDim + 1), h \in 0..(MaxDim + 1) : input = Numbered(Vec2d_new(w, h))
    /\ output = input
    /\ old_output = input
    /\ args = NoValue
    /\ mapping = NoValue
    /\ plan = NoValue
    /\ panic = "none"
    /\ retval = << >>

\* output = mirror(&output)
MirroredAgain(op) ==
    /\ panic = "none"
    /\ Len(retval) < MaxCalls
    /\ pc' = op
    /\ LET made == Mirrored(op, output)
       IN  /\ panic' = made.panic
           /\ output' = made.image
    /\ old_output' = output
    /\ retval' = Append(retval, op)
    /\ UNCHANGED <<overflow_checks, input, args, mapping, plan>>

MirrorHorizontalNew == MirroredAgain("mirror_horizontal_new")

MirrorVerticalNew == MirroredAgain("mirror_vertical_new")

NextMirror == MirrorHorizontalNew \/ MirrorVerticalNew

SpecMirror == InitMirror /\ [][NextMirror]_vars

\* the image the first calls of the history returned
RECURSIVE ImageAfter(_)
ImageAfter(count) ==
    IF count = 0 THEN input
    ELSE Mirrored(retval[count], ImageAfter(count - 1)).image

(***************************************************************************)
(* C30: for every image with w >= 1 and h >= 1, mirror_horizontal_new      *)
(* gives out[y][x] = in[y][w-1-x] and mirror_vertical_new gives            *)
(* out[y][x] = in[h-1-y][x]; the result has the size of the input, the     *)
(* input is unchanged, each mirror is an involution, and the two commute.  *)
(***************************************************************************)
C30_Case ==
    /\ pc \in {"mirror_horizontal_new", "mirror_vertical_new"}
    /\ Img_width(input) >= 1
    /\ Img_height(input) >= 1

C30_Mirrors ==
    C30_Case =>
        LET calls == Len(retval)
            w == Img_width(old_output)
            h == Img_height(old_output)
        IN  /\ panic = "none"
            /\ output.size = old_output.size
            /\ Len(output.pixels) = w * h
            /\ \A x \in Columns(output), y \in Lines(output) :
                Pixel(output, x, y) =
                    IF pc = "mirror_horizontal_new"
                    THEN Pixel(old_output, w - 1 - x, y)
                    ELSE Pixel(old_output, x, h - 1 - y)
            /\ input = Numbered(input.size)
            /\ old_output = ImageAfter(calls - 1)
            /\ (calls >= 2 /\ retval[calls] = retval[calls - 1]) =>
                  output = ImageAfter(calls - 2)
            /\ (calls >= 2 /\ retval[calls] # retval[calls - 1]) =>
                  output = Mirrored(retval[calls - 1],
                                    Mirrored(retval[calls],
                                             ImageAfter(calls - 2)).image).image

C30_Witness ==
    /\ C30_Case
    /\ input.size = Vec2d_new(3, 2)
    /\ retval = <<"mirror_horizontal_new", "mirror_vertical_new">>
    /\ panic = "none"
    /\ old_output.pixels = <<3, 2, 1, 6, 5, 4>>
    /\ output.pixels = <<6, 5, 4, 3, 2, 1>>

====
